---- MODULE Spec2Model ----
(***************************************************************************)
(* Model of the render engine of alloy (render.go): the runtime pool and   *)
(* executeSSR, the bundle cache with file-stamp staleness, the on-demand   *)
(* build path of RenderTSXFileWithHydrationWithContext, and the tailwind   *)
(* watcher registry.                                                       *)
(***************************************************************************)
EXTENDS Integers, Sequences, FiniteSets, TLC

\* ------------------------------------------------------------------ bounds
MaxPoolSize == 1      \* largest pool capacity tried
MaxCalls    == 2      \* total executeSSR calls in one behaviour

\* One caller more than the largest pool has slots.
NumRenders == MaxPoolSize + 1

Renders == 1..NumRenders

NumCallers  == 2      \* concurrent callers of ensureTailwindWatcher
MaxWatchers == 2      \* tailwindWatcher objects created in one behaviour
PollBudget  == 2      \* attempts of the initial-output poll (20 in the source)

Callers  == 1..NumCallers
Watchers == 1..MaxWatchers

MaxMTime == 2         \* modification times a file can have
MaxSize  == 2         \* sizes a file can have

NumRequests == 1      \* concurrent calls of RenderTSXFileWithHydrationWithContext
MaxEdits    == 1      \* file changes next to those calls
MaxTime     == 4      \* the time up to which the files of SpecFresh change

Requests == 1..NumRequests

Comps     == {"home"}          \* component paths (cache keys)
Roots     == {"a", "b"}        \* mount points (root ids)
Files     == {"tsx", "css"}    \* the component file and its app.css
BundleIds == {"p", "q"}        \* prebuilt or built bundles a caller can supply

VARIABLES
    size,          \* jsPool.size, the capacity of jsPool.sem
    sem,           \* number of tokens in the channel jsPool.sem
    renderTimeout, \* the process-wide render timeout (0 disables it)
    pc,            \* position of each call
    ctxErr,        \* ctx.Err() of each call: "none", "canceled", "deadline"
    timer,         \* TRUE while the context.WithTimeout timer of a call is armed
    vm,            \* the *jsRuntime a call holds (0 is nil)
    live,          \* runtimes created and not yet closed
    result,        \* what the last call returned
    calls          \* executeSSR calls started so far

poolVars == <<size, sem, renderTimeout, pc, ctxErr, timer, vm, live, result, calls>>

VARIABLES
    registry,      \* tailwindWatchers.w[cssPath]: a watcher, or 0 for no entry
    nextW,         \* identity of the next tailwindWatcher to be created
    wReady,        \* watcher.ready is closed
    wErr,          \* number of errors buffered in watcher.errCh (capacity 1)
    wProc,         \* the watch subprocess: "none", "running", "startFailed",
                   \* "exited"
    bg,            \* position of the watcher's background goroutine
    polls,         \* poll attempts the background goroutine has used
    outNonEmpty,   \* the watch output file exists and is not empty
    starts,        \* successful cmd.Start() calls so far
    cpc,           \* position of each caller of ensureTailwindWatcher
    cw,            \* the watcher a caller waits on (0 is nil)
    cres           \* what ensureTailwindWatcher returned to the caller

watchVars == <<registry, nextW, wReady, wErr, wProc, bg, polls, outNonEmpty,
               starts, cpc, cw, cres>>

VARIABLES
    entries,       \* bundleCache.entries: component path -> entry or Nil
    fs,            \* the file system: path -> stamp of the file, or Missing
    last,          \* the last call made on the cache and what it returned
    edited         \* a file was changed since that call

cacheVars == <<entries, fs, last, edited>>

VARIABLES
    devMode,       \* isDevMode(): ALLOY_DEV is set in the environment
    rpc,           \* position of each RenderTSXFileWithHydrationWithContext call
    root,          \* the rootID argument of each call
    texts,         \* the locals serverJS, clientJS, css of each call
    captured,      \* the local stamps of each call
    nbuilds,       \* buildAll calls that each call has made
    sawStale,      \* the call found an unpinned entry with a changed file
    disturbed,     \* a call in flight overlapped another call, a file change
                   \* or a registration
    hist,          \* the last two undisturbed calls that got to executeSSR
    started,       \* calls of RenderTSXFileWithHydrationWithContext so far
    outcome,       \* the mount point and the result of the call that returned last
    edits          \* file changes so far

renderVars == <<devMode, rpc, root, texts, captured, nbuilds, sawStale, disturbed, hist,
                started, outcome, edits>>

VARIABLES
    bpc,           \* position of the call that runs buildAll: "idle", "wait", "back"
    wg,            \* the counter of buildAll's WaitGroup
    stage,         \* each stage goroutine: "none", "go", "ok", "failed"
    errs,          \* the errors buffered in buildAll's channel errs, oldest first
    built,         \* buildAll's locals serverJS, clientJS, css
    ret,           \* what the last buildAll returned, and for which rootID
    bcalls         \* buildAll calls so far

buildVars == <<bpc, wg, stage, errs, built, ret, bcalls>>

VARIABLES
    spc,           \* position of the buildTailwindCSS call: "idle", "ensure",
                   \* "readWatched", "oneShot"
    sres,          \* what the last buildTailwindCSS call returned
    why,           \* why that call went to runTailwind, if it did
    devCss,        \* the dev CSS cache holds a file for the current sources
    scalls         \* buildTailwindCSS calls so far

cssVars == <<spc, sres, why, devCss, scalls>>

VARIABLES
    tpc,           \* position of each of two concurrent render calls: "idle",
                   \* "build", "stamp", "store", "done"
    troot,         \* the rootID argument of each of them
    ttexts,        \* their locals serverJS, clientJS, css
    tstamps        \* their local stamps

raceVars == <<tpc, troot, ttexts, tstamps>>

VARIABLES
    now,           \* the time
    mtime,         \* modification time of the component, of app.css, of another
                   \* content file and of the watcher's output file (0: empty)
    fpc,           \* position of the stylesheet build: "idle", "poll", "done"
    reqAt,         \* the time at which the stylesheet build was requested
    lastEdit,      \* the time of the last change of a content file before that
    minModTime,    \* the argument minModTime of readWatchedCSS
    rounds,        \* rounds of readWatchedCSS so far
    got            \* what readWatchedCSS returned, and the modification time
                   \* of the output it read

freshVars == <<now, mtime, fpc, reqAt, lastEdit, minModTime, rounds, got>>

VARIABLES
    heap,          \* the bundleCacheEntry objects: address -> fields
    cur,           \* bundleCache.entries[path]: an address, or 0 for nil
    rdpos,         \* position of a readBundlesFromCache call
    rdent,         \* its local entry
    rdroot,        \* its argument rootID
    rdgot,         \* the three texts it has read so far
    wrpos,         \* position of a RegisterPrebuiltBundle or storeBundles call
    wrop,          \* which of the two it is
    wrroot,        \* its argument rootID
    snapB,         \* what a read returned for each rootID before that call
    snapA          \* what a read returns for each rootID after it

serialVars == <<heap, cur, rdpos, rdent, rdroot, rdgot, wrpos, wrop, wrroot, snapB, snapA>>

VARIABLES
    lpc,           \* position of each task in the call it makes
    gpc,           \* position of the goroutine each task's ensureTailwindWatcher started
    cacheLock,     \* holder of bundleCache's mutex, 0 when it is free
    regLock,       \* holder of tailwindWatchers' mutex, 0 when it is free
    lreg,          \* tailwindWatchers.w[cssPath]: the task that registered it, 0 for nil
    lhit           \* bundleCache.entries[path] != nil

lockVars == <<lpc, gpc, cacheLock, regLock, lreg, lhit>>

VARIABLES
    psem,          \* jsPool.sem: the channel it points to, by number
    tok,           \* the tokens in each channel made so far
    cap,           \* the capacity of each channel; that of psem is jsPool.size
    zpc,           \* position of each call: "idle", "select", "run"
    zsel           \* the channel the select of the call's acquire sends to

resizeVars == <<psem, tok, cap, zpc, zsel>>

vars == <<poolVars, watchVars, cacheVars, renderVars, buildVars, cssVars, raceVars, freshVars,
          serialVars, lockVars, resizeVars>>

\* ------------------------------------------------------- quiescent states

\* The pool is idle: no executeSSR call is in flight.
poolQuiet ==
    /\ size = 1
    /\ sem = 0
    /\ renderTimeout = 0
    /\ pc = [r \in Renders |-> "idle"]
    /\ ctxErr = [r \in Renders |-> "none"]
    /\ timer = [r \in Renders |-> FALSE]
    /\ vm = [r \in Renders |-> 0]
    /\ live = {}
    /\ result = [r \in Renders |-> "none"]
    /\ calls = 0

\* No ensureTailwindWatcher call is in flight and the registry is empty.
watchQuiet ==
    /\ registry = 0
    /\ nextW = 1
    /\ wReady = [w \in Watchers |-> FALSE]
    /\ wErr = [w \in Watchers |-> 0]
    /\ wProc = [w \in Watchers |-> "none"]
    /\ bg = [w \in Watchers |-> "none"]
    /\ polls = [w \in Watchers |-> 0]
    /\ outNonEmpty = FALSE
    /\ starts = 0
    /\ cpc = [c \in Callers |-> "idle"]
    /\ cw = [c \in Callers |-> 0]
    /\ cres = [c \in Callers |-> "none"]

\* No RenderTSXFileWithHydrationWithContext call is in flight.
rendersIdle ==
    /\ rpc = [r \in Requests |-> "idle"]
    /\ root = [r \in Requests |-> ""]
    /\ texts = [r \in Requests |->  <<[kind |-> "", id |-> "", ver |-> 0],
                                      [kind |-> "", id |-> "", ver |-> 0],
                                      [kind |-> "", id |-> "", ver |-> 0]>>]
    /\ captured = [r \in Requests |-> {}]
    /\ nbuilds = [r \in Requests |-> 0]
    /\ sawStale = [r \in Requests |-> FALSE]
    /\ disturbed = FALSE
    /\ hist = <<>>
    /\ started = 0
    /\ outcome = [root |-> "", res |-> "none"]
    /\ edits = 0

renderQuiet ==
    /\ devMode = FALSE
    /\ rendersIdle

\* The three stage tasks of buildAll, in the order of its results.
Stages == <<"server", "client", "css">>

\* The files that the watch subprocess reads, and its output file.
Content == {"tsx", "css", "dep"}
Timed == Content \cup {"out"}

\* The files were written at time 0, there is no watcher output yet, and no
\* stylesheet build was requested.
freshQuiet ==
    /\ now = 0
    /\ mtime = [f \in Timed |-> 0]
    /\ fpc = "idle"
    /\ reqAt = 0
    /\ lastEdit = 0
    /\ minModTime = 0
    /\ rounds = 0
    /\ got = [res |-> "none", at |-> 0]

\* The channels that jsPool.sem can point to, one after the other.
Chans == 1..(MaxCalls + 1)

\* jsPool as newRuntimePool(1) made it, and no call.
resizeQuiet ==
    /\ psem = 1
    /\ tok = [c \in Chans |-> 0]
    /\ cap = [c \in Chans |-> IF c = 1 THEN 1 ELSE 0]
    /\ zpc = [r \in Renders |-> "idle"]
    /\ zsel = [r \in Renders |-> 0]

\* The tasks that make calls.
Tasks == 1..NumCallers

\* No task has made a call and both mutexes are free.
lockQuiet ==
    /\ lpc = [t \in Tasks |-> "idle"]
    /\ gpc = [t \in Tasks |-> "none"]
    /\ cacheLock = 0
    /\ regLock = 0
    /\ lreg = 0
    /\ lhit = FALSE

\* No call on the cache is in flight and the cache is empty.
serialQuiet ==
    /\ heap = [a \in 1..2 |-> [nil |-> TRUE]]
    /\ cur = 0
    /\ rdpos = "idle"
    /\ rdent = 0
    /\ rdroot = ""
    /\ rdgot = <<[kind |-> "", id |-> "", ver |-> 0],
                 [kind |-> "", id |-> "", ver |-> 0],
                 [kind |-> "", id |-> "", ver |-> 0]>>
    /\ wrpos = "idle"
    /\ wrop = ""
    /\ wrroot = ""
    /\ snapB = <<>>
    /\ snapA = <<>>

\* The two render calls that run concurrently.
Pair == {1, 2}

\* Neither of the two concurrent render calls has begun.
raceQuiet ==
    /\ tpc = [t \in Pair |-> "idle"]
    /\ troot = [t \in Pair |-> ""]
    /\ ttexts = [t \in Pair |-> <<[kind |-> "", id |-> "", ver |-> 0],
                                   [kind |-> "", id |-> "", ver |-> 0],
                                   [kind |-> "", id |-> "", ver |-> 0]>>]
    /\ tstamps = [t \in Pair |-> {}]

\* No buildTailwindCSS call is in flight and none was made.
cssQuiet ==
    /\ spc = "idle"
    /\ sres = "none"
    /\ why = "none"
    /\ devCss = FALSE
    /\ scalls = 0

\* No buildAll call is in flight and none was made.
buildQuiet ==
    /\ bpc = "idle"
    /\ wg = 0
    /\ stage = [i \in 1..3 |-> "none"]
    /\ errs = <<>>
    /\ built = [i \in 1..3 |-> [kind |-> "", id |-> "", ver |-> 0]]
    /\ ret = [root |-> "", texts |-> <<>>, err |-> ""]
    /\ bcalls = 0

\* ------------------------------------------------------------ bundle cache

\* A script or stylesheet text: what it is, which supplied bundle or mount
\* point it belongs to, and (for a built one) the file version it was built of.
Art(kind, id, ver) == [kind |-> kind, id |-> id, ver |-> ver]

\* The empty string "".
Empty == Art("", "", 0)

\* The (serverJS, clientJS, css) triple of three empty strings.
Empty3 == <<Empty, Empty, Empty>>

\* os.Stat fails for the path.
Missing == [mt |-> 0, sz |-> 0]

\* fileStamp: modification time and size.
Stamps == [mt : 1..MaxMTime, sz : 1..MaxSize]

\* A map path -> fileStamp, as a set of (path, modTime, size) records.
StampOf(f, st) == [path |-> f, mt |-> st.mt, sz |-> st.sz]

\* The maps that hold one stamp for every path of F.
FullStamps(F) == {{StampOf(f, g[f]) : f \in F} : g \in [F -> Stamps]}

\* The maps that hold one stamp for some of the paths of F.
PartialStamps(F) == UNION {FullStamps(G) : G \in SUBSET F}

\* bundleCache.entries[path] == nil
Nil == [nil |-> TRUE]

\* bundleCacheEntry
Entry(serverJS, clientByID, css, deps, prebuilt) ==
    [serverJS |-> serverJS, clientByID |-> clientByID, css |-> css,
     deps |-> deps, prebuilt |-> prebuilt]

\* map[string]string{rootID: clientJS}
OnlyClient(rootID, clientJS) == [x \in Roots |-> IF x = rootID THEN clientJS ELSE Empty]

cacheStaleIgnoresSize(stamps) ==
    \/ stamps = {}
    \/ \E d \in stamps : fs[d.path] = Missing \/ fs[d.path].mt # d.mt

\* cacheStale: no stamps at all, or the loop over the stamps finds a file
\* that cannot be stat-ed or whose modification time or size differs.
RECURSIVE cacheStaleLoop(_)
cacheStaleLoop(stamps) ==
    IF stamps = {} THEN FALSE
    ELSE LET d == CHOOSE x \in stamps : TRUE
             info == fs[d.path]
         IN  IF info = Missing THEN TRUE
             ELSE IF info.mt # d.mt THEN TRUE
             ELSE IF info.sz # d.sz THEN TRUE
             ELSE cacheStaleLoop(stamps \ {d})

cacheStale(stamps) ==
    IF Cardinality(stamps) = 0 THEN TRUE ELSE cacheStaleLoop(stamps)

entryStaleIgnoresPrebuilt(entry) ==
    IF entry = Nil THEN TRUE ELSE cacheStale(entry.deps)

\* entryStale: nil is stale, a prebuilt entry never is, otherwise cacheStale.
entryStale(entry) ==
    IF entry = Nil THEN TRUE
    ELSE IF entry.prebuilt THEN FALSE
    ELSE cacheStale(entry.deps)

readBundlesFromCacheNoStaleCheck(path, rootID) ==
    LET entry == entries[path]
    IN  IF entry = Nil THEN Empty3
        ELSE <<entry.serverJS, entry.clientByID[rootID], entry.css>>

\* readBundlesFromCache, were it to hand out the client script of any mount
\* point of the entry.
readBundlesFromCacheAnyRoot(path, rootID) ==
    LET entry == entries[path]
    IN  IF entry = Nil THEN Empty3
        ELSE IF entryStale(entry) THEN Empty3
        ELSE IF \E x \in Roots : entry.clientByID[x] # Empty
             THEN <<entry.serverJS,
                    entry.clientByID[CHOOSE x \in Roots : entry.clientByID[x] # Empty],
                    entry.css>>
             ELSE <<entry.serverJS, Empty, entry.css>>

\* readBundlesFromCache
readBundlesFromCache(path, rootID) ==
    LET entry == entries[path]
    IN  IF entry = Nil THEN Empty3
        ELSE IF entryStale(entry) THEN Empty3
        ELSE <<entry.serverJS, entry.clientByID[rootID], entry.css>>

storedBundlesDropsClients(path, rootID, serverJS, clientJS, css, deps) ==
    Entry(serverJS, OnlyClient(rootID, clientJS), css, deps, FALSE)

storedBundlesKeepsStamps(path, rootID, serverJS, clientJS, css, deps) ==
    LET entry == entries[path]
    IN  IF entry = Nil
        THEN Entry(serverJS, OnlyClient(rootID, clientJS), css, deps, FALSE)
        ELSE Entry(serverJS, OnlyClient(rootID, clientJS), css, entry.deps, FALSE)

\* storeBundles: the entry that bundleCache.entries[path] holds afterwards.
storedBundles(path, rootID, serverJS, clientJS, css, deps) ==
    LET entry == entries[path]
    IN  IF entry = Nil \/ entryStale(entry)
        THEN Entry(serverJS, OnlyClient(rootID, clientJS), css, deps, FALSE)
        ELSE [entry EXCEPT !.clientByID[rootID] = clientJS,
                           !.deps = deps,
                           !.prebuilt = FALSE]

\* RegisterPrebuiltBundle: the arguments are accepted.
registerAccepts(rootID, serverJS, clientJS, css) ==
    /\ rootID # ""
    /\ serverJS # Empty /\ clientJS # Empty /\ css # Empty

registeredBundleKeepsStamps(path, rootID, serverJS, clientJS, css) ==
    LET entry == entries[path]
    IN  IF entry = Nil \/ entryStale(entry)
        THEN Entry(serverJS, OnlyClient(rootID, clientJS), css, {}, TRUE)
        ELSE [entry EXCEPT !.serverJS = serverJS,
                           !.css = css,
                           !.clientByID[rootID] = clientJS,
                           !.prebuilt = TRUE]

registeredBundleDropsClients(path, rootID, serverJS, clientJS, css) ==
    Entry(serverJS, OnlyClient(rootID, clientJS), css, {}, TRUE)

\* RegisterPrebuiltBundle: the entry that bundleCache.entries[path] holds
\* afterwards, when the arguments are accepted.
registeredBundle(path, rootID, serverJS, clientJS, css) ==
    LET entry == entries[path]
    IN  IF entry = Nil \/ entryStale(entry)
        THEN Entry(serverJS, OnlyClient(rootID, clientJS), css, {}, TRUE)
        ELSE [entry EXCEPT !.serverJS = serverJS,
                           !.css = css,
                           !.clientByID[rootID] = clientJS,
                           !.prebuilt = TRUE,
                           !.deps = {}]

\* The three texts of a bundle that a caller supplies.
Supplied(b) == <<Art("server", b, 0), Art("client", b, 0), Art("css", b, 0)>>

\* A record of a call on the cache.
Call(op, path, rootID, bundle, deps, ok, res) ==
    [op |-> op, path |-> path, root |-> rootID, b |-> bundle, deps |-> deps,
     ok |-> ok, res |-> res]

NoCall == Call("none", "", "", "", {}, TRUE, Empty3)

\* The call is noted as the last one made on the cache.
noted(call) ==
    /\ last' = call
    /\ edited' = FALSE

\* A file was changed after the last call.
notedEdit ==
    /\ edited' = TRUE
    /\ UNCHANGED last

\* A call of readBundlesFromCache(path, rootID).
read(path, rootID) ==
    /\ noted(Call("read", path, rootID, "", {}, TRUE, readBundlesFromCache(path, rootID)))
    /\ UNCHANGED <<entries, fs>>

\* A call of storeBundles(path, rootID, serverJS, clientJS, css, deps) with
\* the texts of bundle b.
storeBundles(path, rootID, b, deps) ==
    /\ entries' = [entries EXCEPT ![path] =
          storedBundles(path, rootID, Supplied(b)[1], Supplied(b)[2], Supplied(b)[3], deps)]
    /\ noted(Call("store", path, rootID, b, deps, TRUE, Empty3))
    /\ UNCHANGED fs

\* RegisterPrebuiltBundle(path, rootID, serverJS, clientJS, css) with the
\* texts of bundle b, or with an empty client script.
RegisterPrebuiltBundle(path, rootID, b, withClient) ==
    LET serverJS == Supplied(b)[1]
        clientJS == IF withClient THEN Supplied(b)[2] ELSE Empty
        css      == Supplied(b)[3]
    IN  /\ entries' = IF registerAccepts(rootID, serverJS, clientJS, css)
                      THEN [entries EXCEPT ![path] =
                               registeredBundle(path, rootID, serverJS, clientJS, css)]
                      ELSE entries
        /\ UNCHANGED fs

\* A call of RegisterPrebuiltBundle on the cache.
register(path, rootID, b, withClient) ==
    /\ RegisterPrebuiltBundle(path, rootID, b, withClient)
    /\ noted(Call("register", path, rootID, b, {},
                  registerAccepts(rootID, Supplied(b)[1],
                                  IF withClient THEN Supplied(b)[2] ELSE Empty,
                                  Supplied(b)[3]),
                  Empty3))

\* A file is created or rewritten: it gets another stamp.
writeFile(f) ==
    /\ \E st \in Stamps :
         /\ st # fs[f]
         /\ fs' = [fs EXCEPT ![f] = st]
    /\ UNCHANGED entries

\* A file is deleted.
removeFile(f) ==
    /\ fs[f] # Missing
    /\ fs' = [fs EXCEPT ![f] = Missing]
    /\ UNCHANGED entries

\* The cache is empty and every file is present.
cacheQuiet ==
    /\ entries = [c \in Comps |-> Nil]
    /\ fs = [f \in Files |-> [mt |-> 1, sz |-> 1]]
    /\ last = NoCall
    /\ edited = FALSE

\* The files whose stamps the calls of SpecCache pass to storeBundles.
CacheFiles == {"tsx"}

InitCache ==
    /\ poolQuiet
    /\ watchQuiet
    /\ renderQuiet
    /\ buildQuiet
    /\ raceQuiet
    /\ freshQuiet
    /\ lockQuiet
    /\ resizeQuiet
    /\ serialQuiet
    /\ cssQuiet
    /\ entries = [c \in Comps |-> Nil]
    /\ fs \in [CacheFiles -> Stamps \cup {Missing}]
    /\ last = NoCall
    /\ edited = FALSE

NextCache ==
    /\ UNCHANGED <<poolVars, watchVars, renderVars, buildVars, cssVars, raceVars, freshVars, serialVars, lockVars, resizeVars>>
    /\ \/ \E c \in Comps, rootID \in Roots : read(c, rootID)
       \/ \E c \in Comps, rootID \in Roots, b \in BundleIds, deps \in FullStamps(CacheFiles) :
            storeBundles(c, rootID, b, deps)
       \/ \E c \in Comps, rootID \in Roots, b \in BundleIds, withClient \in BOOLEAN :
            register(c, rootID, b, withClient)
       \/ \E f \in CacheFiles : writeFile(f) /\ notedEdit
       \/ \E f \in CacheFiles : removeFile(f) /\ notedEdit

SpecCache == InitCache /\ [][NextCache]_vars

\* The staleness predicate is applied to every entry and every file system.
InitStale ==
    /\ poolQuiet
    /\ watchQuiet
    /\ renderQuiet
    /\ buildQuiet
    /\ raceQuiet
    /\ freshQuiet
    /\ lockQuiet
    /\ resizeQuiet
    /\ serialQuiet
    /\ cssQuiet
    /\ entries \in [Comps -> {Entry(Supplied("p")[1], OnlyClient("a", Supplied("p")[2]),
                                    Supplied("p")[3], deps, prebuilt) :
                                 deps \in PartialStamps(Files), prebuilt \in BOOLEAN}]
    /\ fs \in [Files -> Stamps \cup {Missing}]
    /\ last = NoCall
    /\ edited = FALSE

NextStale ==
    /\ UNCHANGED <<poolVars, watchVars, renderVars, buildVars, cssVars, raceVars, freshVars, serialVars, lockVars, resizeVars>>
    /\ \/ \E c \in Comps, rootID \in Roots : read(c, rootID)
       \/ \E f \in Files : writeFile(f) /\ notedEdit
       \/ \E f \in Files : removeFile(f) /\ notedEdit

SpecStale == InitStale /\ [][NextStale]_vars

\* C5 (pinned immunity): after a successful RegisterPrebuiltBundle, whatever
\* happens to the files, the entry is not stale and a read of the key returns
\* exactly the registered server script, client script and stylesheet.
PinnedImmunity ==
    (last.op = "register" /\ last.ok) =>
        /\ ~entryStale(entries[last.path])
        /\ readBundlesFromCache(last.path, last.root) = Supplied(last.b)

\* C5 witness: a bundle was registered, then files were changed and one of
\* them deleted.
PinnedImmunityWitness ==
    /\ last.op = "register" /\ last.ok
    /\ edited
    /\ \E f \in DOMAIN fs : fs[f] = Missing

\* The step is a storeBundles or an accepted RegisterPrebuiltBundle for
\* mount point x of component c.
WritesClient(c, x) ==
    /\ ~edited'
    /\ last'.op \in {"store", "register"} /\ last'.ok
    /\ last'.path = c /\ last'.root = x

\* Both mount points have a client script in the entry of component c.
BothRegistered(c, x, y) ==
    /\ entries[c] # Nil
    /\ entries[c].clientByID[x] # Empty
    /\ entries[c].clientByID[y] # Empty

\* C6 as claimed (per-mount-point isolation): a write of the client script of
\* one mount point never changes the client script that a read returns for
\* another mount point of the component.
MountIsolation ==
    [][\A c \in Comps, x \in Roots, y \in Roots :
         (x # y /\ BothRegistered(c, x, y) /\ WritesClient(c, x)) =>
             readBundlesFromCache(c, y)'[2] = readBundlesFromCache(c, y)[2]]_vars

\* C6 as amended: a write of the client script of one mount point leaves the
\* client script that a read returns for another mount point unchanged, unless
\* the write leaves the entry stale, in which case the read returns empty.
MountIsolationUnlessStale ==
    [][\A c \in Comps, x \in Roots, y \in Roots :
         (x # y /\ BothRegistered(c, x, y) /\ WritesClient(c, x)) =>
             \/ readBundlesFromCache(c, y)'[2] = readBundlesFromCache(c, y)[2]
             \/ /\ last'.op = "store"
                /\ cacheStale(last.deps)'
                /\ readBundlesFromCache(c, y)' = Empty3]_vars

\* C6 witness: the client script of one mount point was just written and a
\* read for the other mount point still returns that one's own client script.
MountIsolationWitness ==
    \E x \in Roots, y \in Roots :
        /\ x # y
        /\ last.op \in {"store", "register"} /\ last.ok /\ last.root = x /\ ~edited
        /\ entries[last.path].clientByID[x] = Supplied(last.b)[2]
        /\ readBundlesFromCache(last.path, y)[2] # Empty
        /\ readBundlesFromCache(last.path, y)[2] # Supplied(last.b)[2]

\* C8 (read): a read returns the three empty texts when the component has no
\* entry or its entry is stale, and something else only for a fresh entry.
ReadEmptyUnlessFresh ==
    (last.op = "read" /\ ~edited) =>
        LET entry == entries[last.path]
        IN  /\ (entry = Nil \/ entryStale(entry)) => last.res = Empty3
            /\ last.res # Empty3 => (entry # Nil /\ ~entryStale(entry))
            /\ (entry # Nil /\ ~entryStale(entry)) =>
                   last.res = <<entry.serverJS, entry.clientByID[last.root], entry.css>>

\* C8 witness: a read of a key whose entry holds texts but is stale returned
\* the empty result.
ReadEmptyUnlessFreshWitness ==
    /\ last.op = "read" /\ ~edited
    /\ entries[last.path] # Nil
    /\ entries[last.path].clientByID[last.root] # Empty
    /\ entryStale(entries[last.path])
    /\ last.res = Empty3

\* A stamp of the entry no longer matches its file.
StampDiffers(d) ==
    \/ fs[d.path] = Missing
    \/ fs[d.path].mt # d.mt
    \/ fs[d.path].sz # d.sz

StoreReplaces ==
    last.op = "store" =>
        LET entry == entries[last.path]
        IN  /\ entry.serverJS = Supplied(last.b)[1]
            /\ entry.clientByID[last.root] = Supplied(last.b)[2]
            /\ entry.css = Supplied(last.b)[3]
            /\ entry.deps = last.deps
            /\ ~entry.prebuilt

\* C11 (RegisterPrebuiltBundle replaces): after an accepted registration the
\* entry is prebuilt, has no stamps, and holds the supplied server script and
\* stylesheet and the supplied client script for the mount point, whatever
\* entry there was before.
RegisterReplaces ==
    (last.op = "register" /\ last.ok) =>
        LET entry == entries[last.path]
        IN  /\ entry # Nil
            /\ entry.prebuilt
            /\ entry.deps = {}
            /\ entry.serverJS = Supplied(last.b)[1]
            /\ entry.css = Supplied(last.b)[3]
            /\ entry.clientByID[last.root] = Supplied(last.b)[2]

\* C11 witness: a bundle was registered while a file of the component is
\* missing, and only the registered mount point has a client script.
RegisterReplacesWitness ==
    /\ last.op = "register" /\ last.ok /\ ~edited
    /\ \E f \in DOMAIN fs : fs[f] = Missing
    /\ \A x \in Roots \ {last.root} : entries[last.path].clientByID[x] = Empty

resetBundleCacheKeepsPrebuilt ==
    /\ entries' = [c \in Comps |->
                     IF entries[c] # Nil /\ entries[c].prebuilt THEN entries[c] ELSE Nil]
    /\ noted(Call("reset", "", "", "", {}, TRUE, Empty3))
    /\ UNCHANGED fs

\* resetBundleCache(): bundleCache.entries is replaced by an empty map.
resetBundleCache ==
    /\ entries' = [c \in Comps |-> Nil]
    /\ noted(Call("reset", "", "", "", {}, TRUE, Empty3))
    /\ UNCHANGED fs

\* The cache as the tests use it: the calls of SpecCache and resetBundleCache.
NextReset ==
    \/ NextCache
    \/ /\ UNCHANGED <<poolVars, watchVars, renderVars, buildVars, cssVars, raceVars, freshVars, serialVars, lockVars, resizeVars>>
       /\ resetBundleCache

SpecReset == InitCache /\ [][NextReset]_vars

\* C20 (resetBundleCache drops everything): right after resetBundleCache
\* readBundlesFromCache returns three empty texts for every component and
\* mount point; a component that has no entry gets one only by a storeBundles
\* or an accepted RegisterPrebuiltBundle for that component; and as long as
\* it has none, readBundlesFromCache returns three empty texts for it.
ResetDropsAll ==
    [][/\ resetBundleCache =>
            \A c \in Comps, x \in Roots : readBundlesFromCache(c, x)' = Empty3
       /\ \A c \in Comps :
            (entries[c] = Nil /\ entries'[c] # Nil) =>
                /\ last'.op \in {"store", "register"}
                /\ last'.ok
                /\ last'.path = c
                /\ ~edited'
       /\ \A c \in Comps, x \in Roots :
            (entries[c] = Nil /\ read(c, x)) => last'.res = Empty3]_vars

\* C20 witness: resetBundleCache was the last call, no file was changed
\* since, and the cache has no entry.
ResetDropsAllWitness ==
    /\ last.op = "reset"
    /\ ~edited
    /\ \A c \in Comps : entries[c] = Nil
    /\ \A c \in Comps, x \in Roots : readBundlesFromCache(c, x) = Empty3

\* ------------------------------------------------------------ runtime pool

\* newRuntimePool / SetRuntimePoolSize: a size below 1 becomes 1.
newRuntimePool(n) == IF n < 1 THEN 1 ELSE n

makeInterruptHandlerNever(r) == 0

\* makeInterruptHandler: the callback reports 1 once ctx.Done() is closed.
makeInterruptHandler(r) == IF ctxErr[r] # "none" THEN 1 ELSE 0

\* executeSSR, entry: derive the deadline context and go to jsPool.acquire.
\* context.WithTimeout over a context that is already done arms no timer.
\* A new call is given the lowest number that no call in flight has.
executeSSR(r) ==
    /\ pc[r] = "idle"
    /\ \A q \in Renders : q < r => pc[q] # "idle"
    /\ calls < MaxCalls
    /\ calls' = calls + 1
    /\ \E parent \in {"none", "canceled"} :
          ctxErr' = [ctxErr EXCEPT ![r] = parent]
    /\ timer' = [timer EXCEPT ![r] = (renderTimeout > 0 /\ ctxErr'[r] = "none")]
    /\ result' = [result EXCEPT ![r] = "none"]
    /\ pc' = [pc EXCEPT ![r] = "acquire"]
    /\ UNCHANGED <<size, sem, renderTimeout, vm, live>>

\* The positions of a call at which its context is still looked at: the
\* select of acquire and the interrupt handler of a running script.
Watching == {"acquire", "newRuntime", "eval", "evalLoop", "invoke", "invokeLoop"}

\* The caller cancels the context it passed in: the derived context is
\* cancelled with it and its timer is stopped.
cancel(r) ==
    /\ pc[r] \in Watching
    /\ ctxErr[r] = "none"
    /\ ctxErr' = [ctxErr EXCEPT ![r] = "canceled"]
    /\ timer' = [timer EXCEPT ![r] = FALSE]
    /\ UNCHANGED <<size, sem, renderTimeout, pc, vm, live, result, calls>>

\* The timer of context.WithTimeout fires.
deadline(r) ==
    /\ pc[r] \in Watching
    /\ timer[r]
    /\ timer' = [timer EXCEPT ![r] = FALSE]
    /\ ctxErr' = [ctxErr EXCEPT ![r] = "deadline"]
    /\ UNCHANGED <<size, sem, renderTimeout, pc, vm, live, result, calls>>

\* A call returns: the deferred cancel() stops the timer and the call's
\* context is gone.
return(r, res) ==
    /\ pc' = [pc EXCEPT ![r] = "idle"]
    /\ result' = [result EXCEPT ![r] = res]
    /\ timer' = [timer EXCEPT ![r] = FALSE]
    /\ ctxErr' = [ctxErr EXCEPT ![r] = "none"]

acquireSlotUnbounded(r) ==
    /\ pc[r] = "acquire"
    /\ sem' = sem + 1
    /\ pc' = [pc EXCEPT ![r] = "newRuntime"]
    /\ UNCHANGED <<size, renderTimeout, ctxErr, timer, vm, live, result, calls>>

\* runtimePool.acquire, select case p.sem <- struct{}{}: a slot is free.
acquireSlot(r) ==
    /\ pc[r] = "acquire"
    /\ sem < size
    /\ sem' = sem + 1
    /\ pc' = [pc EXCEPT ![r] = "newRuntime"]
    /\ UNCHANGED <<size, renderTimeout, ctxErr, timer, vm, live, result, calls>>

\* The select of acquire without its case <-ctx.Done().
acquireCancelledNever(r) ==
    /\ pc[r] = "acquire"
    /\ FALSE
    /\ UNCHANGED poolVars

\* runtimePool.acquire, select case <-ctx.Done(): return nil, ctx.Err().
acquireCancelled(r) ==
    /\ pc[r] = "acquire"
    /\ ctxErr[r] # "none"
    /\ return(r, "acquireErr")
    /\ UNCHANGED <<size, sem, renderTimeout, vm, live, calls>>

tryReceiveNothing(n) == n

\* The non-blocking receive  select { case <-p.sem: default: }.
tryReceive(n) == IF n > 0 THEN n - 1 ELSE n

\* The *jsRuntime that newRuntimeWithContext allocates: an address that no
\* existing runtime has.
newRuntime == CHOOSE v \in 1..NumRenders : v \notin live

\* runtimePool.acquire after the slot was taken, were it to hand out a runtime
\* kept from before rather than construct one.
newRuntimeWithContextKept(r) ==
    /\ pc[r] = "newRuntime"
    /\ vm' = [vm EXCEPT ![r] = 1]
    /\ pc' = [pc EXCEPT ![r] = "eval"]
    /\ UNCHANGED <<size, sem, renderTimeout, ctxErr, timer, live, result, calls>>

\* runtimePool.acquire after the slot was taken: newRuntimeWithContext
\* either yields a runtime or loadPolyfills fails and the slot is given back.
newRuntimeWithContext(r) ==
    /\ pc[r] = "newRuntime"
    /\ \E ok \in BOOLEAN :
         IF ok
         THEN /\ vm' = [vm EXCEPT ![r] = newRuntime]
              /\ live' = live \cup {newRuntime}
              /\ pc' = [pc EXCEPT ![r] = "eval"]
              /\ UNCHANGED <<sem, result, timer, ctxErr>>
         ELSE /\ sem' = tryReceive(sem)
              /\ return(r, "runtimeErr")
              /\ UNCHANGED <<vm, live>>
    /\ UNCHANGED <<size, renderTimeout, calls>>

\* vm.rt.ClearInterruptHandler() once runSSR is over at position p: nothing
\* looks at the context of the call from then on.
ClearInterruptHandler(r, p) ==
    IF p = "release"
    THEN /\ ctxErr' = [ctxErr EXCEPT ![r] = "none"]
         /\ timer' = [timer EXCEPT ![r] = FALSE]
    ELSE UNCHANGED <<ctxErr, timer>>

\* runSSR, ctx.Eval(jsCode): the server script throws, finishes, or is still
\* running when the engine next polls the interrupt handler ("loops").
runSSREval(r) ==
    /\ pc[r] = "eval"
    /\ \E out \in {"ok", "throws", "loops"} :
         /\ pc' = [pc EXCEPT ![r] =
                CASE out = "ok"    -> "invoke"
                  [] out = "loops" -> "evalLoop"
                  [] OTHER         -> "release"]
         /\ result' = [result EXCEPT ![r] =
                IF out = "throws" THEN "threw" ELSE "none"]
    /\ ClearInterruptHandler(r, pc'[r])
    /\ UNCHANGED <<size, sem, renderTimeout, vm, live, calls>>

\* runSSR: json.Marshal(props) and ctx.Eval(renderCode); the entry point
\* returns a string, returns something else (or throws), or is still running
\* when the engine next polls the interrupt handler.
runSSRInvoke(r) ==
    /\ pc[r] = "invoke"
    /\ \E out \in {"string", "marshalErr", "nonString", "loops"} :
         /\ pc' = [pc EXCEPT ![r] = IF out = "loops" THEN "invokeLoop" ELSE "release"]
         /\ result' = [result EXCEPT ![r] =
                CASE out = "string" -> "html"
                  [] out = "loops"  -> "none"
                  [] OTHER          -> out]
    /\ ClearInterruptHandler(r, pc'[r])
    /\ UNCHANGED <<size, sem, renderTimeout, vm, live, calls>>

\* A script that never finishes by itself: the engine polls the interrupt
\* handler and aborts the evaluation with an exception when it reports 1.
interrupt(r) ==
    /\ pc[r] \in {"evalLoop", "invokeLoop"}
    /\ makeInterruptHandler(r) = 1
    /\ pc' = [pc EXCEPT ![r] = "release"]
    /\ result' = [result EXCEPT ![r] = "interrupted"]
    /\ ClearInterruptHandler(r, pc'[r])
    /\ UNCHANGED <<size, sem, renderTimeout, vm, live, calls>>

closeRuntimeNothing(r) ==
    /\ pc[r] = "release"
    /\ pc' = [pc EXCEPT ![r] = "free"]
    /\ UNCHANGED <<size, sem, renderTimeout, ctxErr, timer, vm, live, result, calls>>

\* runtimePool.release, first half: closeRuntime(vm).
closeRuntime(r) ==
    /\ pc[r] = "release"
    /\ live' = live \ {vm[r]}
    /\ pc' = [pc EXCEPT ![r] = "free"]
    /\ UNCHANGED <<size, sem, renderTimeout, ctxErr, timer, vm, result, calls>>

\* runtimePool.release, second half: give the slot back; executeSSR returns.
release(r) ==
    /\ pc[r] = "free"
    /\ sem' = tryReceive(sem)
    /\ vm' = [vm EXCEPT ![r] = 0]
    /\ return(r, result[r])
    /\ UNCHANGED <<size, renderTimeout, live, calls>>

InitPool ==
    /\ watchQuiet
    /\ cacheQuiet
    /\ renderQuiet
    /\ buildQuiet
    /\ raceQuiet
    /\ freshQuiet
    /\ lockQuiet
    /\ resizeQuiet
    /\ serialQuiet
    /\ cssQuiet
    /\ size \in {newRuntimePool(n) : n \in 0..MaxPoolSize}
    /\ sem = 0
    /\ renderTimeout \in 0..1
    /\ pc = [r \in Renders |-> "idle"]
    /\ ctxErr = [r \in Renders |-> "none"]
    /\ timer = [r \in Renders |-> FALSE]
    /\ vm = [r \in Renders |-> 0]
    /\ live = {}
    /\ result = [r \in Renders |-> "none"]
    /\ calls = 0

NextPool ==
    \E r \in Renders :
      /\ UNCHANGED <<watchVars, cacheVars, renderVars, buildVars, cssVars, raceVars, freshVars, serialVars, lockVars, resizeVars>>
      /\
        \/ executeSSR(r)
        \/ cancel(r)
        \/ deadline(r)
        \/ acquireSlot(r)
        \/ acquireCancelled(r)
        \/ newRuntimeWithContext(r)
        \/ runSSREval(r)
        \/ runSSRInvoke(r)
        \/ interrupt(r)
        \/ closeRuntime(r)
        \/ release(r)

SpecPool == InitPool /\ [][NextPool]_vars

\* Timers fire, the engine polls the interrupt handler, and a goroutine that
\* can take its next step in executeSSR takes it.
SpecPoolFair ==
    /\ SpecPool
    /\ \A r \in Renders :
          WF_vars(/\ UNCHANGED <<watchVars, cacheVars, renderVars, buildVars, cssVars, raceVars, freshVars, serialVars, lockVars, resizeVars>>
                  /\ (deadline(r) \/ interrupt(r) \/ closeRuntime(r) \/ release(r)))

\* The results that executeSSR returns as an error of the script execution.
ExecErrors == {"threw", "interrupted", "marshalErr", "nonString"}

\* The calls that took a slot in acquire and have not yet given it back.
Holders == {r \in Renders :
              pc[r] \in {"newRuntime", "eval", "evalLoop", "invoke", "invokeLoop",
                         "release", "free"}}

\* C1 (pool bound): at most `size` runtimes exist at any time, every existing
\* runtime belongs to a call that holds a slot of the semaphore, and at most
\* `size` calls are past acquire, so one caller more stays blocked in acquire.
PoolBound ==
    /\ Cardinality(live) <= size
    /\ live \subseteq {vm[r] : r \in Holders}
    /\ Cardinality(Holders) = sem
    /\ sem <= size

\* C1 witness: the pool is full of runtimes and one more caller waits in acquire.
PoolBoundWitness ==
    /\ Cardinality(live) = size
    /\ \E r \in Renders : pc[r] = "acquire" /\ ctxErr[r] = "none"

\* C7 (timeout enforcement): with a non-zero render timeout a call whose
\* script does not finish by itself is interrupted, returns an execution
\* error, and its runtime is closed and its slot freed.
TimeoutEnforcement ==
    \A r \in Renders :
        (pc[r] \in {"evalLoop", "invokeLoop"} /\ renderTimeout > 0)
            ~> (/\ pc[r] = "idle"
                /\ result[r] = "interrupted"
                /\ result[r] \in ExecErrors
                /\ vm[r] = 0
                /\ live \subseteq {vm[q] : q \in Renders \ {r}}
                /\ sem = Cardinality(Holders))

\* C7 witness: with a render timeout set, a call whose script was interrupted
\* has returned the error, its runtime is closed and the pool is empty again.
TimeoutEnforcementWitness ==
    \E r \in Renders :
        /\ pc[r] = "idle"
        /\ result[r] = "interrupted"
        /\ renderTimeout > 0
        /\ vm[r] = 0
        /\ live = {}
        /\ sem = 0

\* C13 as claimed (cancelled acquire creates nothing): a call whose context
\* is done while it is in acquire leaves acquire with the cancellation error,
\* with no runtime created and no slot taken, whether or not a slot is free.
CancelledAcquire ==
    [][\A r \in Renders :
         (pc[r] = "acquire" /\ ctxErr[r] # "none" /\ pc'[r] # "acquire")
            => /\ pc'[r] = "idle"
               /\ result'[r] = "acquireErr"
               /\ sem' = sem
               /\ live' = live]_vars

\* C14 (runtime creation failure leaks no slot): when newRuntimeWithContext
\* fails inside acquire, the call returns the error with no runtime, the slot
\* it had taken is given back, and the slots in use are again exactly those
\* of the calls that hold one, so a slot is free for the next acquire.
NoLeakOnRuntimeError ==
    [][\A r \in Renders :
         (pc[r] = "newRuntime" /\ pc'[r] = "idle")
            => /\ result'[r] = "runtimeErr"
               /\ vm'[r] = 0
               /\ live' = live
               /\ sem' = sem - 1
               /\ sem' = Cardinality(Holders')
               /\ sem' < size]_vars

\* C14 witness: in a pool of one slot a call failed to create its runtime and
\* another call has acquired the slot and a runtime after that.
NoLeakOnRuntimeErrorWitness ==
    \E r \in Renders, q \in Renders :
        /\ size = 1
        /\ pc[r] = "idle" /\ result[r] = "runtimeErr"
        /\ pc[q] = "eval" /\ vm[q] \in live

\* The positions of a call while runSSR runs on its runtime.
Running == {"eval", "evalLoop", "invoke", "invokeLoop"}

\* C15 (release on every exit path): whatever way runSSR ends, the call goes
\* on to release; release closes the runtime of the call and then frees one
\* slot, once; a call that holds a runtime returns only through release; and
\* whenever no call is in flight no slot is taken and no runtime exists.
ReleaseOnEveryPath ==
    [][/\ \A r \in Renders :
            /\ (pc[r] \in Running /\ pc'[r] \notin Running) => pc'[r] = "release"
            /\ (pc[r] = "release" /\ pc'[r] # "release")
                  => pc'[r] = "free" /\ vm[r] \in live /\ live' = live \ {vm[r]} /\ sem' = sem
            /\ (pc[r] = "free" /\ pc'[r] # "free")
                  => pc'[r] = "idle" /\ sem' = sem - 1 /\ vm'[r] = 0 /\ live' = live
                     /\ result'[r] = result[r]
            /\ (pc[r] # "idle" /\ pc'[r] = "idle") => pc[r] \in {"acquire", "newRuntime", "free"}
       /\ (\A r \in Renders : pc'[r] = "idle") => (sem' = 0 /\ live' = {})]_vars

\* C15 witness: no call is in flight, no slot is taken, no runtime exists,
\* after one call whose script threw and one whose props did not serialize.
ReleaseOnEveryPathWitness ==
    /\ \A r \in Renders : pc[r] = "idle"
    /\ sem = 0 /\ live = {}
    /\ \E r \in Renders, q \in Renders :
          result[r] = "threw" /\ result[q] = "marshalErr"

\* The positions at which a call holds the runtime that acquire returned and
\* has not yet passed it to closeRuntime.
Using == Running \cup {"release"}

\* C19 (single-use sandboxes): the runtime that a successful acquire returns
\* is constructed in that acquire (it did not exist before and no other call
\* holds it); a call runs its script only on a live runtime that no other
\* call holds; release closes the runtime, after which the call does nothing
\* more with it and returns.
SingleUse ==
    [][\A r \in Renders :
         /\ (pc[r] = "newRuntime" /\ pc'[r] \in Using)
               => /\ vm'[r] \notin live
                  /\ vm'[r] \in live'
                  /\ \A q \in Renders \ {r} : vm[q] # vm'[r] \/ pc[q] \notin Using
         /\ (pc[r] \in Using)
               => /\ vm[r] \in live
                  /\ \A q \in Renders \ {r} : pc[q] \in Using => vm[q] # vm[r]
         /\ (pc[r] = "release" /\ pc'[r] # "release")
               => pc'[r] = "free" /\ vm[r] \notin live'
         /\ (pc[r] = "free" /\ pc'[r] # "free")
               => pc'[r] = "idle" /\ vm'[r] = 0
         /\ (pc[r] \in {"idle", "acquire", "newRuntime"}) => vm[r] = 0]_vars

\* C19 witness: a call runs its script on the only live runtime after
\* another call ran its script to the end and released its own.
SingleUseWitness ==
    \E r \in Renders, q \in Renders :
        /\ r # q
        /\ pc[r] \in Running
        /\ live = {vm[r]}
        /\ pc[q] = "idle"
        /\ result[q] = "html"
        /\ vm[q] = 0
        /\ calls = 2

\* -------------------------------------------------------- tailwind watchers

\* ensureTailwindWatcher is called.
ensureTailwindWatcher(c) ==
    /\ cpc[c] = "idle"
    /\ cpc' = [cpc EXCEPT ![c] = "lookup"]
    /\ cres' = [cres EXCEPT ![c] = "none"]
    /\ cw' = [cw EXCEPT ![c] = 0]
    /\ UNCHANGED <<registry, nextW, wReady, wErr, wProc, bg, polls, outNonEmpty, starts>>

\* Lock; existing := tailwindWatchers.w[cssPath]; Unlock.
lookupWatcher(c) ==
    /\ cpc[c] = "lookup"
    /\ cw' = [cw EXCEPT ![c] = registry]
    /\ cpc' = [cpc EXCEPT ![c] = IF registry # 0 THEN "waitExisting" ELSE "register"]
    /\ UNCHANGED <<registry, nextW, wReady, wErr, wProc, bg, polls, outNonEmpty, starts, cres>>

\* A caller returns from ensureTailwindWatcher.
ensureReturn(c, res) ==
    /\ cpc' = [cpc EXCEPT ![c] = "idle"]
    /\ cres' = [cres EXCEPT ![c] = res]

\* case <-w.ready: a buffered error is taken from errCh and returned;
\* otherwise the output path is returned if the output file is not empty.
afterReady(c) ==
    IF wErr[cw[c]] > 0
    THEN /\ wErr' = [wErr EXCEPT ![cw[c]] = 0]
         /\ ensureReturn(c, "err")
    ELSE /\ ensureReturn(c, IF outNonEmpty THEN "path" ELSE "errNotReady")
         /\ UNCHANGED wErr

\* The existing != nil branch, case <-existing.ready.
waitExistingReady(c) ==
    /\ cpc[c] = "waitExisting"
    /\ wReady[cw[c]]
    /\ afterReady(c)
    /\ UNCHANGED <<registry, nextW, wReady, wProc, bg, polls, outNonEmpty, starts, cw>>

\* The existing != nil branch, were its select to have no time.After case.
waitExistingTimeoutNever(c) ==
    /\ cpc[c] = "waitExisting"
    /\ FALSE
    /\ UNCHANGED watchVars

\* The existing != nil branch, case <-time.After(5 * time.Second).
waitExistingTimeout(c) ==
    /\ cpc[c] = "waitExisting"
    /\ ensureReturn(c, "errExistingTimeout")
    /\ UNCHANGED <<registry, nextW, wReady, wErr, wProc, bg, polls, outNonEmpty, starts, cw>>

\* No entry was found: tailwindCmd may fail; otherwise a new watcher is put in
\* the registry (overwriting whatever is there) and its goroutine is spawned.
registerWatcher(c) ==
    /\ cpc[c] = "register"
    /\ \E cmdOk \in BOOLEAN :
         IF cmdOk
         THEN /\ nextW <= MaxWatchers
              /\ registry' = nextW
              /\ nextW' = nextW + 1
              /\ bg' = [bg EXCEPT ![nextW] = "start"]
              /\ cw' = [cw EXCEPT ![c] = nextW]
              /\ cpc' = [cpc EXCEPT ![c] = "waitOwn"]
              /\ UNCHANGED cres
         ELSE /\ ensureReturn(c, "err")
              /\ UNCHANGED <<registry, nextW, bg, cw>>
    /\ UNCHANGED <<wReady, wErr, wProc, polls, outNonEmpty, starts>>

\* The creator's select, case <-watcher.ready.
waitOwnReady(c) ==
    /\ cpc[c] = "waitOwn"
    /\ wReady[cw[c]]
    /\ afterReady(c)
    /\ UNCHANGED <<registry, nextW, wReady, wProc, bg, polls, outNonEmpty, starts, cw>>

\* The creator's select, case <-time.After(3 * time.Second).
waitOwnTimeout(c) ==
    /\ cpc[c] = "waitOwn"
    /\ ensureReturn(c, "errTimeout")
    /\ UNCHANGED <<registry, nextW, wReady, wErr, wProc, bg, polls, outNonEmpty, starts, cw>>

\* Background goroutine: cmd.Start().
bgStart(w) ==
    /\ bg[w] = "start"
    /\ \E ok \in BOOLEAN :
         IF ok
         THEN /\ wProc' = [wProc EXCEPT ![w] = "running"]
              /\ starts' = starts + 1
              /\ bg' = [bg EXCEPT ![w] = "poll"]
         ELSE /\ wProc' = [wProc EXCEPT ![w] = "startFailed"]
              /\ bg' = [bg EXCEPT ![w] = "failing"]
              /\ UNCHANGED starts
    /\ UNCHANGED <<registry, nextW, wReady, wErr, polls, outNonEmpty, cpc, cw, cres>>

\* Background goroutine: one round of the wait for initial output.
bgPoll(w) ==
    /\ bg[w] = "poll"
    /\ IF outNonEmpty
       THEN /\ wReady' = [wReady EXCEPT ![w] = TRUE]
            /\ bg' = [bg EXCEPT ![w] = "ready"]
            /\ UNCHANGED polls
       ELSE /\ polls' = [polls EXCEPT ![w] = polls[w] + 1]
            /\ bg' = [bg EXCEPT ![w] = IF polls[w] + 1 >= PollBudget THEN "failing" ELSE "poll"]
            /\ UNCHANGED wReady
    /\ UNCHANGED <<registry, nextW, wErr, wProc, outNonEmpty, starts, cpc, cw, cres>>

\* Background goroutine: watcher.errCh <- err; close(watcher.ready).
bgFail(w) ==
    /\ bg[w] = "failing"
    /\ wErr' = [wErr EXCEPT ![w] = 1]
    /\ wReady' = [wReady EXCEPT ![w] = TRUE]
    /\ bg' = [bg EXCEPT ![w] = "clear"]
    /\ UNCHANGED <<registry, nextW, wProc, polls, outNonEmpty, starts, cpc, cw, cres>>

\* clearWatcher(cssPath), were it to leave the registry as it is.
clearWatcherKeepsEntry(w) ==
    /\ bg[w] = "clear"
    /\ bg' = [bg EXCEPT ![w] = "failed"]
    /\ UNCHANGED <<registry, nextW, wReady, wErr, wProc, polls, outNonEmpty, starts, cpc, cw, cres>>

\* clearWatcher(cssPath): delete the registry entry of the path.
clearWatcher(w) ==
    /\ bg[w] = "clear"
    /\ registry' = 0
    /\ bg' = [bg EXCEPT ![w] = "failed"]
    /\ UNCHANGED <<nextW, wReady, wErr, wProc, polls, outNonEmpty, starts, cpc, cw, cres>>

\* A running watch subprocess writes its output file.
tailwindWrites(w) ==
    /\ wProc[w] = "running"
    /\ ~outNonEmpty
    /\ outNonEmpty' = TRUE
    /\ UNCHANGED <<registry, nextW, wReady, wErr, wProc, bg, polls, starts, cpc, cw, cres>>

\* A running watch subprocess exits or is killed; nothing in the program
\* waits for it.
processExits(w) ==
    /\ wProc[w] = "running"
    /\ wProc' = [wProc EXCEPT ![w] = "exited"]
    /\ UNCHANGED <<registry, nextW, wReady, wErr, bg, polls, outNonEmpty, starts, cpc, cw, cres>>

\* The output file may be left over from an earlier run of the program.
InitWatch ==
    /\ poolQuiet
    /\ cacheQuiet
    /\ renderQuiet
    /\ buildQuiet
    /\ raceQuiet
    /\ freshQuiet
    /\ lockQuiet
    /\ resizeQuiet
    /\ serialQuiet
    /\ cssQuiet
    /\ registry = 0
    /\ nextW = 1
    /\ wReady = [w \in Watchers |-> FALSE]
    /\ wErr = [w \in Watchers |-> 0]
    /\ wProc = [w \in Watchers |-> "none"]
    /\ bg = [w \in Watchers |-> "none"]
    /\ polls = [w \in Watchers |-> 0]
    /\ outNonEmpty \in BOOLEAN
    /\ starts = 0
    /\ cpc = [c \in Callers |-> "idle"]
    /\ cw = [c \in Callers |-> 0]
    /\ cres = [c \in Callers |-> "none"]

NextWatch ==
    /\ UNCHANGED <<poolVars, cacheVars, renderVars, buildVars, cssVars, raceVars, freshVars, serialVars, lockVars, resizeVars>>
    /\ \/ \E c \in Callers :
            \/ ensureTailwindWatcher(c)
            \/ lookupWatcher(c)
            \/ waitExistingReady(c)
            \/ waitExistingTimeout(c)
            \/ registerWatcher(c)
            \/ waitOwnReady(c)
            \/ waitOwnTimeout(c)
       \/ \E w \in Watchers :
            \/ bgStart(w)
            \/ bgPoll(w)
            \/ bgFail(w)
            \/ clearWatcher(w)
            \/ tailwindWrites(w)
            \/ processExits(w)

SpecWatch == InitWatch /\ [][NextWatch]_vars

\* No watcher has failed or been removed from the registry so far: every
\* request made up to now is a first request.
FirstRequests == \A w \in Watchers : bg[w] \in {"none", "start", "poll", "ready"}

\* C2 (watcher singleton): however many callers make the first request
\* concurrently, only one watch subprocess is started.
WatcherSingleton == FirstRequests => starts <= 1

\* -------------------------------------------------------------- render path

\* The component that the calls render; its files are "tsx" and "css".
Page == CHOOSE c \in Comps : TRUE

\* The version of a file that a build stage read, as a number above 0.
Ver(st) == (st.mt - 1) * MaxSize + st.sz

\* The calls that have not returned.
InFlight == {r \in Requests : rpc[r] # "idle"}

\* What buildAll returns when its three stages succeed: the server and the
\* client script bundled from the component, the stylesheet from app.css.
builtTexts(rid) ==
    <<Art("server", "", Ver(fs["tsx"])),
      Art("client", rid, Ver(fs["tsx"])),
      Art("css", "", Ver(fs["css"]))>>

\* captureFileStamps, when os.Stat succeeds for every path.
captureFileStamps(paths) == {StampOf(f, fs[f]) : f \in paths}

\* The entry is unpinned and stale because a stamped file, still present,
\* has another modification time or size than recorded.
StaleByChange(entry) ==
    /\ entry # Nil
    /\ ~entry.prebuilt
    /\ \A f \in Files : fs[f] # Missing
    /\ \E d \in entry.deps : fs[d.path].mt # d.mt \/ fs[d.path].sz # d.sz

\* The prebuilt bundles that are registered next to the calls.
Prebuilt == {"p"}

\* A file is rewritten: it gets the next modification time with its size
\* kept, or the next size with its modification time kept.
rewriteFile(f) ==
    /\ fs[f] # Missing
    /\ \E st \in Stamps :
         /\ \/ st.mt = fs[f].mt + 1 /\ st.sz = fs[f].sz
            \/ st.mt = fs[f].mt /\ st.sz = fs[f].sz + 1
         /\ fs' = [fs EXCEPT ![f] = st]
    /\ UNCHANGED entries

\* Something happened next to the calls in flight.
disturb ==
    /\ hist' = <<>>
    /\ disturbed' = (disturbed \/ InFlight # {})
    /\ UNCHANGED <<devMode, rpc, root, texts, captured, nbuilds, sawStale, started, outcome>>
    /\ UNCHANGED <<last, edited>>

\* A bundle is registered at startup, before the first call.
startup ==
    /\ started = 0 /\ InFlight = {}
    /\ disturb
    /\ UNCHANGED edits

\* One more file change.
edit ==
    /\ edits < MaxEdits
    /\ edits' = edits + 1
    /\ disturb

\* The call returns; its locals are gone.
renderReturn(r) ==
    /\ rpc' = [rpc EXCEPT ![r] = "idle"]
    /\ root' = [root EXCEPT ![r] = ""]
    /\ texts' = [texts EXCEPT ![r] = Empty3]
    /\ captured' = [captured EXCEPT ![r] = {}]
    /\ nbuilds' = [nbuilds EXCEPT ![r] = 0]
    /\ sawStale' = [sawStale EXCEPT ![r] = FALSE]
    /\ disturbed' = (disturbed /\ InFlight \ {r} # {})

\* The call returns an error before it gets to executeSSR.
renderError(r, res) ==
    /\ renderReturn(r)
    /\ hist' = <<>>
    /\ outcome' = [root |-> root[r], res |-> res]
    /\ UNCHANGED <<devMode, started, edits>>

\* RenderTSXFileWithHydrationWithContext up to the cache lookup: os.Stat of
\* the component and of app.css, then readBundlesFromCache; a hit goes to
\* executeSSR, a miss to buildAll or, outside dev mode, to an error.  A new
\* call is given the lowest number that no call in flight has.
renderStart(r, rid) ==
    /\ rpc[r] = "idle"
    /\ \A q \in Requests : q < r => rpc[q] # "idle"
    /\ started < MaxCalls
    /\ started' = started + 1
    /\ IF fs["tsx"] = Missing \/ fs["css"] = Missing
       THEN /\ hist' = <<>>
            /\ outcome' = [root |-> rid,
                           res |-> IF fs["tsx"] = Missing THEN "statErr" ELSE "cssErr"]
            /\ UNCHANGED <<devMode, rpc, root, texts, captured, nbuilds, sawStale, disturbed,
                           edits>>
       ELSE LET found == readBundlesFromCache(Page, rid)
                miss  == found[1] = Empty \/ found[2] = Empty \/ found[3] = Empty
            IN  IF miss /\ ~devMode
                THEN /\ hist' = <<>>
                     /\ outcome' = [root |-> rid, res |-> "notRegistered"]
                     /\ UNCHANGED <<devMode, rpc, root, texts, captured, nbuilds,
                                    sawStale, disturbed, edits>>
                ELSE /\ UNCHANGED <<edits, outcome>>
                     /\ rpc' = [rpc EXCEPT ![r] = IF miss THEN "build" ELSE "ssr"]
                     /\ root' = [root EXCEPT ![r] = rid]
                     /\ texts' = [texts EXCEPT ![r] = found]
                     /\ sawStale' = [sawStale EXCEPT ![r] = StaleByChange(entries[Page])]
                     /\ disturbed' = (disturbed \/ InFlight # {})
                     /\ UNCHANGED <<devMode, captured, nbuilds, hist>>
    /\ UNCHANGED cacheVars

\* buildAll: the three stages run and are joined; one that fails, or that
\* does not find its file, makes the call return the error.
buildAll(r) ==
    /\ rpc[r] = "build"
    /\ \E ok \in BOOLEAN :
         IF ok /\ fs["tsx"] # Missing /\ fs["css"] # Missing
         THEN /\ texts' = [texts EXCEPT ![r] = builtTexts(root[r])]
              /\ nbuilds' = [nbuilds EXCEPT ![r] = nbuilds[r] + 1]
              /\ rpc' = [rpc EXCEPT ![r] = "stamp"]
              /\ UNCHANGED <<devMode, root, captured, sawStale, disturbed, hist, started, outcome, edits>>
         ELSE renderError(r, "buildErr")
    /\ UNCHANGED cacheVars

\* stamps, stampErr := captureFileStamps(deps)
renderCapture(r) ==
    /\ rpc[r] = "stamp"
    /\ IF \E f \in Files : fs[f] = Missing
       THEN renderError(r, "captureErr")
       ELSE /\ captured' = [captured EXCEPT ![r] = captureFileStamps(Files)]
            /\ rpc' = [rpc EXCEPT ![r] = "store"]
            /\ UNCHANGED <<devMode, root, texts, nbuilds, sawStale, disturbed, hist, started, outcome, edits>>
    /\ UNCHANGED cacheVars

\* The call goes on to executeSSR with nothing stored.
renderStoreSkipped(r) ==
    /\ rpc[r] = "store"
    /\ rpc' = [rpc EXCEPT ![r] = "ssr"]
    /\ UNCHANGED <<entries, fs, last, edited>>
    /\ UNCHANGED <<devMode, root, texts, captured, nbuilds, sawStale, disturbed, hist, started, outcome, edits>>

\* storeBundles(absPath, rootID, serverJS, clientJS, css, stamps)
renderStore(r) ==
    /\ rpc[r] = "store"
    /\ entries' = [entries EXCEPT ![Page] =
          storedBundles(Page, root[r], texts[r][1], texts[r][2], texts[r][3], captured[r])]
    /\ rpc' = [rpc EXCEPT ![r] = "ssr"]
    /\ UNCHANGED <<fs, last, edited>>
    /\ UNCHANGED <<devMode, root, texts, captured, nbuilds, sawStale, disturbed, hist, started, outcome, edits>>

\* After executeSSR the call builds again instead of returning.
renderSSRRetries(r) ==
    /\ rpc[r] = "ssr"
    /\ rpc' = [rpc EXCEPT ![r] = "build"]
    /\ UNCHANGED <<devMode, root, texts, captured, nbuilds, sawStale, disturbed, hist, started, outcome, edits>>
    /\ UNCHANGED cacheVars

\* What hist keeps of a call that got to executeSSR.
Ran(r) == [root |-> root[r], server |-> texts[r][1], n |-> nbuilds[r]]

\* executeSSR(ctx, absPath, serverJS, props) runs the server script the call
\* holds, and the call returns the page or "ssr error"; the steps of
\* executeSSR are those of SpecPool.
renderSSR(r) ==
    /\ rpc[r] = "ssr"
    /\ renderReturn(r)
    /\ hist' = IF disturbed THEN <<>>
               ELSE IF hist = <<>> THEN <<Ran(r)>>
               ELSE <<hist[Len(hist)], Ran(r)>>
    /\ \E res \in {"ssr", "ssrErr"} : outcome' = [root |-> root[r], res |-> res]
    /\ UNCHANGED <<devMode, started, edits>>
    /\ UNCHANGED cacheVars

InitRender ==
    /\ poolQuiet
    /\ watchQuiet
    /\ cacheQuiet
    /\ devMode \in BOOLEAN
    /\ rendersIdle
    /\ buildQuiet
    /\ raceQuiet
    /\ freshQuiet
    /\ lockQuiet
    /\ resizeQuiet
    /\ serialQuiet
    /\ cssQuiet

NextRender ==
    /\ UNCHANGED <<poolVars, watchVars, buildVars, cssVars, raceVars, freshVars, serialVars, lockVars, resizeVars>>
    /\ \/ \E r \in Requests, rid \in Roots : renderStart(r, rid)
       \/ \E r \in Requests : buildAll(r)
       \/ \E r \in Requests : renderCapture(r)
       \/ \E r \in Requests : renderStore(r)
       \/ \E r \in Requests : renderSSR(r)
       \/ \E rid \in Roots, b \in Prebuilt :
            RegisterPrebuiltBundle(Page, rid, b, TRUE) /\ startup
       \/ \E f \in Files : rewriteFile(f) /\ edit
       \/ \E f \in Files : removeFile(f) /\ edit

SpecRender == InitRender /\ [][NextRender]_vars

\* C3 as claimed (idempotent cache hit): in dev mode, of two consecutive
\* calls for the same component and mount point, with no file change, no
\* registration and no other call since the first began, the first having
\* built, the second builds nothing and executes the server script that the
\* first one built and stored.
IdempotentHit ==
    (devMode /\ Len(hist) = 2 /\ hist[1].root = hist[2].root /\ hist[1].n > 0) =>
        /\ hist[1].n = 1
        /\ hist[2].n = 0
        /\ hist[2].server = hist[1].server

\* C4 (staleness triggers rebuild): when a file stamped in an unpinned entry
\* has got another modification time or size, the next call for the component
\* takes the entry as a miss and goes to buildAll, has built exactly once
\* when it stores and when it returns, and its store leaves the entry fresh
\* as long as the stamps it captured still match the files.
StaleRebuild ==
    [][\A r \in Requests :
         /\ (devMode /\ StaleByChange(entries[Page]) /\ rpc[r] = "idle" /\ rpc'[r] # "idle")
               => rpc'[r] = "build"
         /\ (sawStale[r] /\ rpc[r] = "store" /\ rpc'[r] = "ssr")
               => /\ nbuilds[r] = 1
                  /\ (~cacheStale(captured[r])') => (~entryStale(entries[Page])')
         /\ (sawStale[r] /\ rpc[r] = "ssr" /\ rpc'[r] = "idle")
               => nbuilds[r] = 1]_vars

\* C4 witness: a call that found the entry stale by a changed file has
\* rebuilt once and stored, and the entry is unpinned and fresh with the
\* stamps the call captured.
StaleRebuildWitness ==
    \E r \in Requests :
        /\ rpc[r] = "ssr"
        /\ sawStale[r]
        /\ nbuilds[r] = 1
        /\ entries[Page] # Nil
        /\ ~entries[Page].prebuilt
        /\ entries[Page].deps = captured[r]
        /\ ~entryStale(entries[Page])
        /\ edits > 0

\* The cache holds nothing usable for the component and the mount point.
Absent(rid) ==
    \/ entries[Page] = Nil
    \/ entryStale(entries[Page])
    \/ entries[Page].serverJS = Empty
    \/ entries[Page].clientByID[rid] = Empty
    \/ entries[Page].css = Empty

\* The call that begins in this step returns in it, with the given result for
\* the mount point, and built nothing, got to no executeSSR and wrote nothing
\* to the cache.
ReturnsAtOnce(rid, res) ==
    /\ outcome' = [root |-> rid, res |-> res]
    /\ rpc' = rpc
    /\ nbuilds' = nbuilds
    /\ entries' = entries
    /\ sem' = sem /\ live' = live /\ vm' = vm

\* C16 as claimed (prebuilt-required mode): outside dev mode, a call for a
\* component and mount point that the cache does not hold returns the
\* 'bundle not registered' error, builds nothing, acquires no runtime and
\* leaves the cache as it was.
NotRegistered ==
    [][\A r \in Requests, rid \in Roots :
         (renderStart(r, rid) /\ ~devMode /\ Absent(rid))
            => ReturnsAtOnce(rid, "notRegistered")]_vars

\* C16 (prebuilt-required mode), with the condition the claim leaves out:
\* outside dev mode, a call for a component and mount point that the cache
\* does not hold, the component file and its app.css being there, returns the
\* 'bundle not registered' error, builds nothing, acquires no runtime and
\* leaves the cache as it was.
NotRegisteredWhenFilesExist ==
    [][\A r \in Requests, rid \in Roots :
         (renderStart(r, rid) /\ ~devMode /\ Absent(rid)
            /\ fs["tsx"] # Missing /\ fs["css"] # Missing)
            => ReturnsAtOnce(rid, "notRegistered")]_vars

\* C16 witness: outside dev mode a call has returned 'bundle not registered'
\* for a mount point while the component is pinned for another one, the
\* files being there.
NotRegisteredWitness ==
    /\ ~devMode
    /\ outcome.res = "notRegistered"
    /\ InFlight = {}
    /\ entries[Page] # Nil
    /\ entries[Page].prebuilt
    /\ entries[Page].clientByID[outcome.root] = Empty
    /\ \E x \in Roots : entries[Page].clientByID[x] # Empty
    /\ fs["tsx"] # Missing /\ fs["css"] # Missing

\* The version of file f that the stamps record.
StampedVer(deps, f) == Ver(CHOOSE d \in deps : d.path = f)

\* The texts of the entry were all built from the file versions that its
\* stamps record.
InSync(entry) ==
    /\ entry.serverJS.ver = StampedVer(entry.deps, "tsx")
    /\ entry.css.ver = StampedVer(entry.deps, "css")
    /\ \A x \in Roots :
          entry.clientByID[x] # Empty => entry.clientByID[x].ver = StampedVer(entry.deps, "tsx")

\* C23 as claimed (fingerprints describe what was built): when a call stores
\* what it built where there was no usable entry, and the entry is fresh
\* afterwards, its texts were built from the file versions that its stamps
\* record, even if a file was rewritten between buildAll and
\* captureFileStamps.
StampsDescribeBuild ==
    [][\A r \in Requests :
         (/\ rpc[r] = "store" /\ rpc'[r] = "ssr"
          /\ (entries[Page] = Nil \/ entryStale(entries[Page]))
          /\ ~entryStale(entries[Page])')
            => InSync(entries[Page])']_vars

\* C22 as claimed (artifacts stay in sync as a unit): every entry that is not
\* prebuilt and that readBundlesFromCache takes as fresh holds a server
\* script, a stylesheet and client scripts built from the file versions that
\* its stamps record.
FreshInSync ==
    (entries[Page] # Nil /\ ~entries[Page].prebuilt /\ ~entryStale(entries[Page]))
        => InSync(entries[Page])

\* ------------------------------------------------------------- buildAll

\* fmt.Errorf("server bundle error: ..."), "client bundle error: ...",
\* "css error: ...": the error a failing stage sends.
StageError(i) == <<"server bundle error", "client bundle error", "css error">>[i]

\* The stage tasks that have failed.
Failed == {i \in 1..3 : stage[i] = "failed"}

\* wg.Wait(), were it to return at once.
wgWaitReturnsAtOnce == TRUE

\* wg.Wait() returns when the counter is 0.
wgWait == wg = 0

\* RenderTSXFileWithHydrationWithContext in dev mode finds no usable texts in
\* the cache and calls buildAll, which sets the WaitGroup to 3, makes the
\* channel and spawns the three stage goroutines.
buildStart(rid) ==
    /\ bpc = "idle"
    /\ bcalls < MaxCalls
    /\ devMode
    /\ LET found == readBundlesFromCache(Page, rid)
       IN  found[1] = Empty \/ found[2] = Empty \/ found[3] = Empty
    /\ bcalls' = bcalls + 1
    /\ bpc' = "wait"
    /\ wg' = 3
    /\ stage' = [i \in 1..3 |-> "go"]
    /\ errs' = <<>>
    /\ built' = [i \in 1..3 |-> Empty]
    /\ ret' = [root |-> rid, texts |-> <<>>, err |-> ""]
    /\ UNCHANGED cacheVars

\* A stage goroutine: the build fails and its error is sent to errs (which
\* has room for three), or it succeeds and its text is put in the local of
\* buildAll; the deferred wg.Done() follows.
stageTask(i) ==
    /\ stage[i] = "go"
    /\ \E ok \in BOOLEAN :
         IF ok
         THEN /\ stage' = [stage EXCEPT ![i] = "ok"]
              /\ built' = [built EXCEPT ![i] = builtTexts(ret.root)[i]]
              /\ UNCHANGED errs
         ELSE /\ stage' = [stage EXCEPT ![i] = "failed"]
              /\ errs' = Append(errs, StageError(i))
              /\ UNCHANGED built
    /\ wg' = wg - 1
    /\ UNCHANGED <<bpc, ret, bcalls>>
    /\ UNCHANGED cacheVars

\* wg.Wait(); close(errs); the first error in errs is returned with empty
\* texts, or, errs being empty, the three texts are.
buildJoin ==
    /\ bpc = "wait"
    /\ wgWait
    /\ bpc' = "back"
    /\ ret' = IF errs # <<>>
              THEN [ret EXCEPT !.texts = Empty3, !.err = Head(errs)]
              ELSE [ret EXCEPT !.texts = <<built[1], built[2], built[3]>>]
    /\ UNCHANGED <<wg, stage, errs, built, bcalls>>
    /\ UNCHANGED cacheVars

\* Back in the render call, were it to look at its context before storing:
\* with the context cancelled it returns and stores nothing.
buildReturnedChecksCtx ==
    /\ bpc = "back"
    /\ bpc' = "idle"
    /\ IF ret.err # "" \/ ctxErr[1] # "none"
       THEN UNCHANGED entries
       ELSE entries' = [entries EXCEPT ![Page] =
               storedBundles(Page, ret.root, ret.texts[1], ret.texts[2], ret.texts[3],
                             captureFileStamps(Files))]
    /\ UNCHANGED <<fs, last, edited>>
    /\ UNCHANGED <<wg, stage, errs, built, ret, bcalls>>

\* Back in RenderTSXFileWithHydrationWithContext: a buildErr is returned to
\* the caller; otherwise the stamps are captured, storeBundles is called, and
\* the call goes on to executeSSR.
buildReturned ==
    /\ bpc = "back"
    /\ bpc' = "idle"
    /\ IF ret.err # ""
       THEN UNCHANGED entries
       ELSE entries' = [entries EXCEPT ![Page] =
               storedBundles(Page, ret.root, ret.texts[1], ret.texts[2], ret.texts[3],
                             captureFileStamps(Files))]
    /\ UNCHANGED <<fs, last, edited>>
    /\ UNCHANGED <<wg, stage, errs, built, ret, bcalls>>

InitBuild ==
    /\ poolQuiet
    /\ watchQuiet
    /\ cacheQuiet
    /\ devMode = TRUE
    /\ rendersIdle
    /\ buildQuiet
    /\ raceQuiet
    /\ freshQuiet
    /\ lockQuiet
    /\ resizeQuiet
    /\ serialQuiet
    /\ cssQuiet

NextBuild ==
    /\ UNCHANGED <<poolVars, watchVars, renderVars, cssVars, raceVars, freshVars, serialVars, lockVars, resizeVars>>
    /\ \/ \E rid \in Roots : buildStart(rid)
       \/ \E i \in 1..3 : stageTask(i)
       \/ buildJoin
       \/ buildReturned

SpecBuild == InitBuild /\ [][NextBuild]_vars

\* C17 (build fan-in): buildAll returns only when its three stage tasks have
\* finished; if any of them failed it returns one error, that of a stage that
\* failed, and no texts, and the call that made it stores nothing in the
\* cache; if none failed it returns the three texts built.
BuildFanIn ==
    [][/\ (bpc = "wait" /\ bpc' = "back") =>
            /\ \A i \in 1..3 : stage[i] \in {"ok", "failed"}
            /\ IF Failed # {}
               THEN /\ ret'.err \in {StageError(i) : i \in Failed}
                    /\ ret'.texts = Empty3
               ELSE /\ ret'.err = ""
                    /\ ret'.texts = builtTexts(ret.root)
       /\ (bpc = "back" /\ bpc' = "idle" /\ ret.err # "") => entries' = entries]_vars

\* C17 witness: a buildAll in which the server script was built and the two
\* other stages failed, the stylesheet first, has returned "css error" to a
\* call that has returned in its turn, and the cache holds what an earlier
\* call stored for another mount point and nothing for this one.
BuildFanInWitness ==
    /\ bpc = "idle"
    /\ stage = <<"ok", "failed", "failed">>
    /\ errs = <<"css error", "client bundle error">>
    /\ ret.err = "css error"
    /\ ret.texts = Empty3
    /\ entries[Page] # Nil
    /\ entries[Page].clientByID[ret.root] = Empty
    /\ \E x \in Roots : entries[Page].clientByID[x] # Empty

\* -------------------------------------------------------- buildTailwindCSS

\* The caller of ensureTailwindWatcher that is buildTailwindCSS itself, and
\* the one that is the goroutine it spawns after a hit in the dev CSS cache.
Fg == 1
Bg == 2

\* What buildTailwindCSS returns with a nil error: the text of the dev CSS
\* cache, of the watcher's output file, or of runTailwind.
CssTexts == {"cached", "watched", "oneShot"}

\* writeDevCSSCache: outside dev mode nothing is written; the errors of
\* MkdirAll and WriteFile are dropped, so the file may not be there afterwards.
writeDevCSSCache ==
    IF devMode THEN \E wrote \in BOOLEAN : devCss' = (devCss \/ wrote)
    ELSE UNCHANGED devCss

\* buildTailwindCSS returns.
cssReturn(res) ==
    /\ spc' = "idle"
    /\ sres' = res

\* buildTailwindCSS is called: os.Stat of the component or of app.css fails.
cssStatFails ==
    /\ spc = "idle"
    /\ scalls < MaxCalls
    /\ scalls' = scalls + 1
    /\ fs["tsx"] = Missing \/ fs["css"] = Missing
    /\ cssReturn(IF fs["tsx"] = Missing THEN "statErr" ELSE "missingCssErr")
    /\ why' = "none"
    /\ UNCHANGED <<devCss, watchVars>>

\* buildTailwindCSS is called in dev mode and readDevCSSCache finds the file:
\* a goroutine is spawned that calls ensureTailwindWatcher, and the cached
\* text is returned.
cssCached ==
    /\ spc = "idle"
    /\ scalls < MaxCalls
    /\ scalls' = scalls + 1
    /\ fs["tsx"] # Missing /\ fs["css"] # Missing
    /\ devMode /\ devCss
    /\ ensureTailwindWatcher(Bg)
    /\ cssReturn("cached")
    /\ why' = "none"
    /\ UNCHANGED devCss

\* buildTailwindCSS is called in dev mode and readDevCSSCache finds nothing:
\* ensureTailwindWatcher is called.
cssEnsure ==
    /\ spc = "idle"
    /\ scalls < MaxCalls
    /\ scalls' = scalls + 1
    /\ fs["tsx"] # Missing /\ fs["css"] # Missing
    /\ devMode /\ ~devCss
    /\ ensureTailwindWatcher(Fg)
    /\ spc' = "ensure"
    /\ sres' = "none"
    /\ why' = "none"
    /\ UNCHANGED devCss

\* buildTailwindCSS is called outside dev mode: it goes to runTailwind.
cssProd ==
    /\ spc = "idle"
    /\ scalls < MaxCalls
    /\ scalls' = scalls + 1
    /\ fs["tsx"] # Missing /\ fs["css"] # Missing
    /\ ~devMode
    /\ spc' = "oneShot"
    /\ sres' = "none"
    /\ why' = "none"
    /\ UNCHANGED <<devCss, watchVars>>

\* ensureTailwindWatcher has returned, were its error to be returned to the
\* caller of buildTailwindCSS.
cssAfterEnsureReturnsError ==
    /\ spc = "ensure"
    /\ cpc[Fg] = "idle"
    /\ IF cres[Fg] = "path"
       THEN spc' = "readWatched" /\ UNCHANGED <<sres, why>>
       ELSE cssReturn("watcherErr") /\ why' = cres[Fg]
    /\ UNCHANGED <<devCss, scalls, watchVars>>

\* ensureTailwindWatcher has returned: with the output path the call goes on
\* to readWatchedCSS, with an error to runTailwind.
cssAfterEnsure ==
    /\ spc = "ensure"
    /\ cpc[Fg] = "idle"
    /\ IF cres[Fg] = "path"
       THEN spc' = "readWatched" /\ UNCHANGED why
       ELSE spc' = "oneShot" /\ why' = cres[Fg]
    /\ UNCHANGED <<sres, devCss, scalls, watchVars>>

\* readWatchedCSS: within its twenty rounds the output file is found not
\* empty and not older than the sources, and is read, the text is written to
\* the dev CSS cache and returned; otherwise the call goes to runTailwind.
readWatchedCSS ==
    /\ spc = "readWatched"
    /\ \E fresh \in BOOLEAN :
         IF outNonEmpty /\ fresh
         THEN /\ cssReturn("watched")
              /\ writeDevCSSCache
              /\ UNCHANGED why
         ELSE /\ spc' = "oneShot"
              /\ why' = "notFresh"
              /\ UNCHANGED <<sres, devCss>>
    /\ UNCHANGED <<scalls, watchVars>>

\* runTailwind: the one-shot compile fails and its error is returned, or its
\* text is written to the dev CSS cache and returned.
runTailwind ==
    /\ spc = "oneShot"
    /\ \E ok \in BOOLEAN :
         IF ok
         THEN cssReturn("oneShot") /\ writeDevCSSCache
         ELSE cssReturn("tailwindErr") /\ UNCHANGED devCss
    /\ UNCHANGED <<why, scalls, watchVars>>

\* The output file and the dev CSS cache may be left over from an earlier run
\* of the program.
InitCss ==
    /\ poolQuiet
    /\ buildQuiet
    /\ raceQuiet
    /\ freshQuiet
    /\ lockQuiet
    /\ resizeQuiet
    /\ serialQuiet
    /\ entries = [c \in Comps |-> Nil]
    /\ fs \in [Files -> {[mt |-> 1, sz |-> 1], Missing}]
    /\ last = NoCall
    /\ edited = FALSE
    /\ devMode \in BOOLEAN
    /\ rendersIdle
    /\ registry = 0
    /\ nextW = 1
    /\ wReady = [w \in Watchers |-> FALSE]
    /\ wErr = [w \in Watchers |-> 0]
    /\ wProc = [w \in Watchers |-> "none"]
    /\ bg = [w \in Watchers |-> "none"]
    /\ polls = [w \in Watchers |-> 0]
    /\ outNonEmpty \in BOOLEAN
    /\ starts = 0
    /\ cpc = [c \in Callers |-> "idle"]
    /\ cw = [c \in Callers |-> 0]
    /\ cres = [c \in Callers |-> "none"]
    /\ spc = "idle"
    /\ sres = "none"
    /\ why = "none"
    /\ devCss \in BOOLEAN
    /\ scalls = 0

NextCss ==
    /\ UNCHANGED <<poolVars, cacheVars, renderVars, buildVars, raceVars, freshVars, serialVars, lockVars, resizeVars>>
    /\ \/ cssStatFails
       \/ cssCached
       \/ cssEnsure
       \/ cssProd
       \/ cssAfterEnsure
       \/ readWatchedCSS
       \/ runTailwind
       \/ \E c \in {Fg, Bg} :
            /\ UNCHANGED cssVars
            /\ \/ lookupWatcher(c)
               \/ waitExistingReady(c)
               \/ waitExistingTimeout(c)
               \/ registerWatcher(c)
               \/ waitOwnReady(c)
               \/ waitOwnTimeout(c)
       \/ \E w \in Watchers :
            /\ UNCHANGED cssVars
            /\ \/ bgStart(w)
               \/ bgPoll(w)
               \/ bgFail(w)
               \/ clearWatcher(w)
               \/ tailwindWrites(w)
               \/ processExits(w)

SpecCss == InitCss /\ [][NextCss]_vars

\* The goroutines are scheduled: the background goroutine of a watcher takes
\* its next step, and a caller inside ensureTailwindWatcher takes its next
\* step (its select has a time.After case, so one is always there to take).
\* The subprocess owes nothing: it may never write and never exit.
SpecCssFair ==
    /\ SpecCss
    /\ \A w \in Watchers :
          WF_vars(/\ UNCHANGED <<poolVars, cacheVars, renderVars, buildVars, raceVars, cssVars, freshVars, serialVars, lockVars, resizeVars>>
                  /\ (bgStart(w) \/ bgPoll(w) \/ bgFail(w) \/ clearWatcher(w)))
    /\ \A c \in {Fg, Bg} :
          WF_vars(/\ UNCHANGED <<poolVars, cacheVars, renderVars, buildVars, raceVars, cssVars, freshVars, serialVars, lockVars, resizeVars>>
                  /\ (lookupWatcher(c) \/ waitExistingReady(c) \/ waitExistingTimeout(c)
                        \/ registerWatcher(c) \/ waitOwnReady(c) \/ waitOwnTimeout(c)))

\* C18 (watcher failure containment): in dev mode, when ensureTailwindWatcher
\* returns an error (the watcher did not start, was not ready in time, or had
\* no output) or readWatchedCSS does not find fresh output, buildTailwindCSS
\* goes on to runTailwind; it returns an error only from runTailwind, or when
\* it could not stat the component or app.css.
WatcherContained ==
    [][/\ (devMode /\ spc = "ensure" /\ spc' # "ensure" /\ cres[Fg] # "path")
            => spc' = "oneShot"
       /\ (devMode /\ spc = "readWatched" /\ spc' # "readWatched" /\ sres' # "watched")
            => spc' = "oneShot"
       /\ (scalls' # scalls /\ spc' = "idle" /\ sres' \notin CssTexts)
            => (fs["tsx"] = Missing \/ fs["css"] = Missing)
       /\ (scalls' = scalls /\ spc # "idle" /\ spc' = "idle" /\ sres' \notin CssTexts)
            => (spc = "oneShot" /\ sres' = "tailwindErr")]_vars

\* C18 witness: in dev mode a watcher was not ready in time, and the call
\* returned the text of the one-shot compile.
WatcherContainedWitness ==
    /\ devMode
    /\ spc = "idle"
    /\ sres = "oneShot"
    /\ why = "errTimeout"
    /\ registry # 0

\* The state of a watcher: "absent" before it is made, "starting" until its
\* goroutine closes ready, then "ready", or "failed" if an error was put in
\* errCh first.
Phase(w) ==
    CASE bg[w] = "none"                        -> "absent"
      [] bg[w] \in {"start", "poll", "failing"} -> "starting"
      [] bg[w] = "ready"                       -> "ready"
      [] OTHER                                 -> "failed"

\* C28 as claimed (watcher state machine): a watcher only moves from absent
\* to starting and from starting to ready or to failed; ready is closed once,
\* at that last move; a caller is given the output path only of a watcher
\* that is ready, never of one that failed; and once clearWatcher has run
\* for a failed watcher the registry does not hold it.
WatcherStateMachine ==
    [][/\ \A w \in Watchers :
            /\ <<Phase(w), Phase(w)'>> \in
                   {<<"absent", "absent">>, <<"absent", "starting">>,
                    <<"starting", "starting">>, <<"starting", "ready">>,
                    <<"starting", "failed">>, <<"ready", "ready">>,
                    <<"failed", "failed">>}
            /\ wReady[w] <=> Phase(w) \in {"ready", "failed"}
            /\ bg[w] = "failed" => registry # w
       /\ \A c \in Callers :
            (cpc[c] # "idle" /\ cpc'[c] = "idle" /\ cres'[c] = "path")
                => Phase(cw[c]) = "ready"]_vars

\* A caller inside ensureTailwindWatcher takes its next step; the background
\* goroutines and the subprocesses owe nothing.
SpecCssCallersFair ==
    /\ SpecCss
    /\ \A c \in {Fg, Bg} :
          WF_vars(/\ UNCHANGED <<poolVars, cacheVars, renderVars, buildVars, raceVars, cssVars, freshVars, serialVars, lockVars, resizeVars>>
                  /\ (lookupWatcher(c) \/ waitExistingReady(c) \/ waitExistingTimeout(c)
                        \/ registerWatcher(c) \/ waitOwnReady(c) \/ waitOwnTimeout(c)))

\* C26 (waiters use the existing watcher and never hang): a caller whose
\* lookup finds a watcher waits on that watcher; when it stops waiting it
\* returns, having registered no watcher and started no subprocess, with the
\* path or an error only if ready is closed, else with the timeout error;
\* and every ensureTailwindWatcher call returns, whether or not ready is
\* ever closed.
WaitersNeverHang ==
    /\ [][\A c \in Callers :
            /\ (cpc[c] = "lookup" /\ registry # 0 /\ cpc'[c] # "lookup")
                  => (cpc'[c] = "waitExisting" /\ cw'[c] = registry)
            /\ (cpc[c] = "waitExisting" /\ cpc'[c] # "waitExisting")
                  => /\ cpc'[c] = "idle"
                     /\ registry' = registry /\ nextW' = nextW
                     /\ bg' = bg /\ wProc' = wProc /\ starts' = starts
                     /\ cres'[c] \in {"path", "err", "errNotReady", "errExistingTimeout"}
                     /\ (cres'[c] # "errExistingTimeout") => wReady[cw[c]]]_vars
    /\ \A c \in {Fg, Bg} : (cpc[c] # "idle") ~> (cpc[c] = "idle")

\* C26 witness: a caller that found the one watcher there is has returned
\* the timeout error of the waiters while ready was not closed.
WaitersNeverHangWitness ==
    \E c \in Callers :
        /\ cpc[c] = "idle"
        /\ cres[c] = "errExistingTimeout"
        /\ cw[c] = 1
        /\ ~wReady[1]
        /\ nextW = 2

\* C25 (failed watcher is cleared): a watcher whose subprocess did not start,
\* or whose output was still empty when the polls ran out, puts an error in
\* errCh and closes ready, and then clearWatcher leaves the registry without
\* an entry; this always comes about, the watcher is never in the registry
\* again, and a caller that looks up an empty registry goes on to register a
\* new watcher.
FailedWatcherCleared ==
    /\ [][/\ \A w \in Watchers :
              /\ (bg[w] = "failing" /\ bg'[w] # "failing")
                    => (bg'[w] = "clear" /\ wErr'[w] = 1 /\ wReady'[w])
              /\ (bg[w] = "clear" /\ bg'[w] # "clear")
                    => (bg'[w] = "failed" /\ registry' = 0)
              /\ (bg[w] = "failed") => (bg'[w] = "failed" /\ registry' # w)
          /\ \A c \in Callers :
              (cpc[c] = "lookup" /\ registry = 0 /\ cpc'[c] # "lookup")
                    => cpc'[c] = "register"]_vars
    /\ \A w \in Watchers :
          (bg[w] = "failing") ~> (bg[w] = "failed" /\ registry # w)

\* C25 witness: a watcher whose subprocess runs but wrote nothing while the
\* polls lasted has failed, and the registry is empty; another has failed
\* because its subprocess did not start.
FailedWatcherClearedWitness ==
    /\ registry = 0
    /\ \E w \in Watchers :
          bg[w] = "failed" /\ wReady[w] /\ wProc[w] = "running" /\ polls[w] = PollBudget
    /\ \E w \in Watchers :
          bg[w] = "failed" /\ wReady[w] /\ wProc[w] = "startFailed"

\* C24 as claimed (crashed watcher is retried): after the subprocess of a
\* watcher that had become ready has exited, the registry sooner or later
\* does not hold that watcher any more, so that a later ensureTailwindWatcher
\* call finds no entry and registers a new one.
CrashedWatcherRetried ==
    \A w \in Watchers :
        (bg[w] = "ready" /\ wProc[w] = "exited") ~> (registry # w)

\* C37: when clearWatcher removes the registry entry of a watcher whose
\* polls ran out, the subprocess of that watcher is not running; and at
\* most one watch subprocess runs at any time.
NoOrphanSubprocess ==
    /\ [][\A w \in Watchers :
            (bg[w] = "clear" /\ bg'[w] = "failed" /\ polls[w] >= PollBudget)
               => wProc'[w] # "running"]_vars
    /\ [](Cardinality({w \in Watchers : wProc[w] = "running"}) <= 1)

\* C38: once a watcher has failed (its goroutine sent the error and closed
\* ready), every caller that waits on it, the creator and the others alike,
\* returns an error from ensureTailwindWatcher and none returns the path.
EveryWaiterLearns ==
    [][\A c \in Callers :
         (/\ cpc[c] \in {"waitExisting", "waitOwn"}
          /\ cpc'[c] = "idle"
          /\ bg[cw[c]] \in {"clear", "failed"})
            => cres'[c] # "path"]_vars

\* ------------------------------------------------- two concurrent renders

\* RenderTSXFileWithHydrationWithContext up to the cache lookup, the files
\* being there: on a hit the call has nothing to build or store.
raceStart(t, rid) ==
    /\ tpc[t] = "idle"
    /\ troot[t] = ""
    /\ LET found == readBundlesFromCache(Page, rid)
           miss  == found[1] = Empty \/ found[2] = Empty \/ found[3] = Empty
       IN  /\ tpc' = [tpc EXCEPT ![t] = IF miss THEN "build" ELSE "done"]
           /\ ttexts' = [ttexts EXCEPT ![t] = found]
    /\ troot' = [troot EXCEPT ![t] = rid]
    /\ UNCHANGED tstamps
    /\ UNCHANGED cacheVars

\* buildAll returns the texts built from the files as they are.
raceBuild(t) ==
    /\ tpc[t] = "build"
    /\ ttexts' = [ttexts EXCEPT ![t] = builtTexts(troot[t])]
    /\ tpc' = [tpc EXCEPT ![t] = "stamp"]
    /\ UNCHANGED <<troot, tstamps>>
    /\ UNCHANGED cacheVars

\* stamps, stampErr := captureFileStamps(deps)
raceCapture(t) ==
    /\ tpc[t] = "stamp"
    /\ tstamps' = [tstamps EXCEPT ![t] = captureFileStamps(Files)]
    /\ tpc' = [tpc EXCEPT ![t] = "store"]
    /\ UNCHANGED <<troot, ttexts>>
    /\ UNCHANGED cacheVars

\* storeBundles(absPath, rootID, serverJS, clientJS, css, stamps); the call
\* is noted with the texts and the stamps it passed.
raceStore(t) ==
    /\ tpc[t] = "store"
    /\ entries' = [entries EXCEPT ![Page] =
          storedBundles(Page, troot[t], ttexts[t][1], ttexts[t][2], ttexts[t][3], tstamps[t])]
    /\ noted(Call("store", Page, troot[t], "", tstamps[t], TRUE, ttexts[t]))
    /\ tpc' = [tpc EXCEPT ![t] = "done"]
    /\ UNCHANGED <<fs, troot, ttexts, tstamps>>

\* A file is rewritten while the calls run.
raceEdit(f) ==
    /\ \E t \in Pair : tpc[t] \in {"build", "stamp", "store"}
    /\ rewriteFile(f)
    /\ notedEdit
    /\ UNCHANGED raceVars

InitRace ==
    /\ poolQuiet
    /\ watchQuiet
    /\ cacheQuiet
    /\ devMode = TRUE
    /\ rendersIdle
    /\ buildQuiet
    /\ cssQuiet
    /\ raceQuiet
    /\ freshQuiet
    /\ lockQuiet
    /\ resizeQuiet
    /\ serialQuiet

NextRace ==
    /\ UNCHANGED <<poolVars, watchVars, renderVars, buildVars, cssVars, freshVars, serialVars, lockVars, resizeVars>>
    /\ \/ \E t \in Pair, rid \in Roots : raceStart(t, rid)
       \/ \E t \in Pair : raceBuild(t)
       \/ \E t \in Pair : raceCapture(t)
       \/ \E t \in Pair : raceStore(t)
       \/ \E f \in Files : raceEdit(f)

SpecRace == InitRace /\ [][NextRace]_vars

\* C21 as claimed (last store wins): of two concurrent calls for the same
\* component and mount point that both found no usable entry and both built,
\* the one whose storeBundles runs last leaves an entry that holds exactly
\* the server script, client script, stylesheet and stamps it passed.
LastStoreWins ==
    [][\A t \in Pair, u \in Pair :
         (/\ t # u
          /\ tpc[u] = "done" /\ tstamps[u] # {}
          /\ troot[u] = troot[t]
          /\ tpc[t] = "store" /\ tpc'[t] = "done")
            => /\ entries'[Page].serverJS = ttexts[t][1]
               /\ entries'[Page].clientByID[troot[t]] = ttexts[t][2]
               /\ entries'[Page].css = ttexts[t][3]
               /\ entries'[Page].deps = tstamps[t]]_vars

\* ----------------------------------------------------- readWatchedCSS

\* The largest of a set of times.
Latest(S) == CHOOSE x \in S : \A y \in S : y <= x

\* A content file is changed: it gets the time of the change.
touch(f) ==
    /\ now < MaxTime
    /\ now' = now + 1
    /\ mtime' = [mtime EXCEPT ![f] = now + 1]
    /\ UNCHANGED <<fpc, reqAt, lastEdit, minModTime, rounds, got>>

\* The watch subprocess compiles the content files as they are and writes its
\* output file.
watchCompiles ==
    /\ now < MaxTime
    /\ now' = now + 1
    /\ mtime' = [mtime EXCEPT !["out"] = now + 1]
    /\ UNCHANGED <<fpc, reqAt, lastEdit, minModTime, rounds, got>>

\* buildTailwindCSS in dev mode with no hit in the dev CSS cache: os.Stat of
\* the component and of app.css, ensureTailwindWatcher returns the output
\* path, and readWatchedCSS is called with the later of the two modification
\* times.
freshRequest ==
    /\ fpc = "idle"
    /\ now < MaxTime
    /\ now' = now + 1
    /\ reqAt' = now + 1
    /\ lastEdit' = Latest({mtime[f] : f \in Content})
    /\ minModTime' = Latest({mtime["css"], mtime["tsx"]})
    /\ rounds' = 0
    /\ got' = [res |-> "none", at |-> 0]
    /\ fpc' = "poll"
    /\ UNCHANGED mtime

\* One round of readWatchedCSS: the output is returned if it is not empty and
\* its modification time is not before minModTime; after the last round the
\* error "tailwind watch output not fresh" is.
readWatchedRound ==
    /\ fpc = "poll"
    /\ IF mtime["out"] > 0 /\ mtime["out"] >= minModTime
       THEN /\ got' = [res |-> "watched", at |-> mtime["out"]]
            /\ fpc' = "done"
            /\ UNCHANGED rounds
       ELSE /\ rounds' = rounds + 1
            /\ fpc' = IF rounds + 1 >= PollBudget THEN "done" ELSE "poll"
            /\ got' = IF rounds + 1 >= PollBudget
                      THEN [res |-> "notFresh", at |-> 0] ELSE got
    /\ UNCHANGED <<now, mtime, reqAt, lastEdit, minModTime>>

\* buildTailwindCSS returns; another request may follow.
freshReturn ==
    /\ fpc = "done"
    /\ fpc' = "idle"
    /\ UNCHANGED <<now, mtime, reqAt, lastEdit, minModTime, rounds, got>>

InitFresh ==
    /\ poolQuiet
    /\ watchQuiet
    /\ cacheQuiet
    /\ devMode = TRUE
    /\ rendersIdle
    /\ buildQuiet
    /\ cssQuiet
    /\ raceQuiet
    /\ freshQuiet
    /\ lockQuiet
    /\ resizeQuiet
    /\ serialQuiet

NextFresh ==
    /\ UNCHANGED <<poolVars, watchVars, cacheVars, renderVars, buildVars, cssVars, raceVars,
                   serialVars, lockVars, resizeVars>>
    /\ \/ \E f \in Content : touch(f)
       \/ watchCompiles
       \/ freshRequest
       \/ readWatchedRound
       \/ freshReturn

SpecFresh == InitFresh /\ [][NextFresh]_vars

\* C27 as claimed (fresh watched output only): a stylesheet build that
\* returns the watcher's output returns output whose modification time is not
\* before the time of the request, and never output compiled before the last
\* change of a content file that preceded the request.
FreshWatchedOnly ==
    (got.res = "watched") => (got.at >= reqAt /\ got.at >= lastEdit)

\* ------------------------------------- one reader and one writer of a key
\*
\* readBundlesFromCache fetches the entry pointer under bundleCache's lock
\* and reads the entry's fields after Unlock; RegisterPrebuiltBundle and
\* storeBundles change the fields of an existing entry one assignment at a
\* time while they hold the lock.  The entries are objects on a heap here,
\* and every field access is a step.

Addrs == 1..2

\* The stamps captureFileStamps takes of the two files as they are.
FreshDeps == {StampOf(f, fs[f]) : f \in Files}

\* The entries the key can hold when the two calls start: a prebuilt one and
\* a built, up-to-date one, each with a client script for mount point "a".
StartEntries ==
    {Entry(Supplied("p")[1], OnlyClient("a", Supplied("p")[2]), Supplied("p")[3], {}, TRUE),
     Entry(Supplied("p")[1], OnlyClient("a", Supplied("p")[2]), Supplied("p")[3],
           FreshDeps, FALSE)}

\* What readBundlesFromCache returns for rootID when it runs alone on entry.
readAlone(entry, rootID) ==
    IF entry = Nil THEN Empty3
    ELSE IF entryStale(entry) THEN Empty3
    ELSE <<entry.serverJS, entry.clientByID[rootID], entry.css>>

\* The entry of the key once the writer has returned.
written(op, entry, rootID) ==
    LET serverJS == Supplied("q")[1]
        clientJS == Supplied("q")[2]
        css      == Supplied("q")[3]
    IN  IF op = "register"
        THEN IF entry = Nil \/ entryStale(entry)
             THEN Entry(serverJS, OnlyClient(rootID, clientJS), css, {}, TRUE)
             ELSE [entry EXCEPT !.serverJS = serverJS, !.css = css,
                                !.clientByID[rootID] = clientJS,
                                !.prebuilt = TRUE, !.deps = {}]
        ELSE IF entry = Nil \/ entryStale(entry)
             THEN Entry(serverJS, OnlyClient(rootID, clientJS), css, FreshDeps, FALSE)
             ELSE [entry EXCEPT !.clientByID[rootID] = clientJS,
                                !.deps = FreshDeps, !.prebuilt = FALSE]

\* bundleCache.entries[path], dereferenced.
curEntry == IF cur = 0 THEN Nil ELSE heap[cur]

\* The writer is between bundleCache.Lock() and bundleCache.Unlock().
writerHoldsLock == wrpos \in {"serverJS", "css", "client", "prebuilt", "deps"}

\* The order of the assignments of the two update branches.
AfterField(op, pos) ==
    IF op = "register"
    THEN CASE pos = "serverJS" -> "css"
           [] pos = "css"      -> "client"
           [] pos = "client"   -> "prebuilt"
           [] pos = "prebuilt" -> "deps"
           [] OTHER            -> "done"
    ELSE CASE pos = "client"   -> "deps"
           [] pos = "deps"     -> "prebuilt"
           [] OTHER            -> "done"

\* readBundlesFromCache: Lock, entry := entries[path], Unlock, entry == nil.
rdLock(rid) ==
    /\ rdpos = "idle"
    /\ ~writerHoldsLock
    /\ rdroot' = rid
    /\ rdent' = cur
    /\ rdpos' = IF cur = 0 THEN "done" ELSE "prebuilt"
    /\ rdgot' = Empty3
    /\ UNCHANGED <<heap, cur, wrpos, wrop, wrroot, snapB, snapA>>

\* entryStale: if entry.prebuilt.
rdPrebuilt ==
    /\ rdpos = "prebuilt"
    /\ rdpos' = IF heap[rdent].prebuilt THEN "client" ELSE "deps"
    /\ UNCHANGED <<heap, cur, rdent, rdroot, rdgot, wrpos, wrop, wrroot, snapB, snapA>>

\* entryStale: return cacheStale(entry.deps).
rdDeps ==
    /\ rdpos = "deps"
    /\ rdpos' = IF cacheStale(heap[rdent].deps) THEN "done" ELSE "client"
    /\ UNCHANGED <<heap, cur, rdent, rdroot, rdgot, wrpos, wrop, wrroot, snapB, snapA>>

\* client := entry.clientByID[rootID].  A map read that meets the writer's
\* map write is, besides a read of the old or the new value, a fatal error
\* of the runtime.
rdClient ==
    /\ rdpos = "client"
    /\ \/ /\ rdgot' = [rdgot EXCEPT ![2] = heap[rdent].clientByID[rdroot]]
          /\ rdpos' = "server"
       \/ /\ wrpos = "client"
          /\ cur = rdent
          /\ rdpos' = "fatal"
          /\ UNCHANGED rdgot
    /\ UNCHANGED <<heap, cur, rdent, rdroot, wrpos, wrop, wrroot, snapB, snapA>>

\* return entry.serverJS, ...
rdServer ==
    /\ rdpos = "server"
    /\ rdgot' = [rdgot EXCEPT ![1] = heap[rdent].serverJS]
    /\ rdpos' = "css"
    /\ UNCHANGED <<heap, cur, rdent, rdroot, wrpos, wrop, wrroot, snapB, snapA>>

\* ... client, entry.css
rdCss ==
    /\ rdpos = "css"
    /\ rdgot' = [rdgot EXCEPT ![3] = heap[rdent].css]
    /\ rdpos' = "done"
    /\ UNCHANGED <<heap, cur, rdent, rdroot, wrpos, wrop, wrroot, snapB, snapA>>

\* RegisterPrebuiltBundle or storeBundles: Lock, entry := entries[path], and
\* either the branch that installs a new entry and unlocks, or the way to
\* the first assignment of the update branch.
wrLock(op, rid) ==
    /\ wrpos = "idle"
    /\ wrop' = op
    /\ wrroot' = rid
    /\ snapB' = [x \in Roots |-> readAlone(curEntry, x)]
    /\ snapA' = [x \in Roots |-> readAlone(written(op, curEntry, rid), x)]
    /\ IF curEntry = Nil \/ entryStale(curEntry)
       THEN LET a == CHOOSE x \in Addrs : x # cur
            IN  /\ heap' = [heap EXCEPT ![a] = written(op, curEntry, rid)]
                /\ cur' = a
                /\ wrpos' = "done"
       ELSE /\ wrpos' = IF op = "register" THEN "serverJS" ELSE "client"
            /\ UNCHANGED <<heap, cur>>
    /\ UNCHANGED <<rdpos, rdent, rdroot, rdgot>>

\* One assignment to a field of the existing entry; Unlock after the last.
wrField ==
    /\ writerHoldsLock
    /\ heap' = [heap EXCEPT ![cur] =
          CASE wrpos = "serverJS" -> [@ EXCEPT !.serverJS = Supplied("q")[1]]
            [] wrpos = "css"      -> [@ EXCEPT !.css = Supplied("q")[3]]
            [] wrpos = "client"   -> [@ EXCEPT !.clientByID[wrroot] = Supplied("q")[2]]
            [] wrpos = "prebuilt" -> [@ EXCEPT !.prebuilt = (wrop = "register")]
            [] OTHER              -> [@ EXCEPT !.deps = IF wrop = "register" THEN {}
                                                        ELSE FreshDeps]]
    /\ wrpos' = AfterField(wrop, wrpos)
    /\ UNCHANGED <<cur, rdpos, rdent, rdroot, rdgot, wrop, wrroot, snapB, snapA>>

InitSerial ==
    /\ poolQuiet
    /\ watchQuiet
    /\ cacheQuiet
    /\ renderQuiet
    /\ buildQuiet
    /\ cssQuiet
    /\ raceQuiet
    /\ freshQuiet
    /\ lockQuiet
    /\ resizeQuiet
    /\ \/ /\ cur = 0
          /\ heap = [a \in Addrs |-> Nil]
       \/ /\ cur = 1
          /\ \E e \in StartEntries : heap = [a \in Addrs |-> IF a = 1 THEN e ELSE Nil]
    /\ rdpos = "idle"
    /\ rdent = 0
    /\ rdroot = ""
    /\ rdgot = Empty3
    /\ wrpos = "idle"
    /\ wrop = ""
    /\ wrroot = ""
    /\ snapB = <<>>
    /\ snapA = <<>>

NextSerial ==
    /\ UNCHANGED <<poolVars, watchVars, cacheVars, renderVars, buildVars, cssVars, raceVars,
                   freshVars, lockVars, resizeVars>>
    /\ \/ \E rid \in Roots : rdLock(rid)
       \/ rdPrebuilt
       \/ rdDeps
       \/ rdClient
       \/ rdServer
       \/ rdCss
       \/ \E op \in {"register", "store"}, rid \in Roots : wrLock(op, rid)
       \/ wrField

SpecSerial == InitSerial /\ [][NextSerial]_vars

\* C29: a read of a key that runs concurrently with a RegisterPrebuiltBundle
\* or a storeBundles of the same key returns the triple a read returned
\* before that write or the triple a read returns after it, never a mixture
\* of the two.
ReadsSerialized ==
    (rdpos = "done" /\ wrpos # "idle") =>
        rdgot \in {snapB[rdroot], snapA[rdroot]}

\* ------------------------------------------ store, then execute, no retry

NoRetries ==
    [][\A r \in Requests :
         /\ rpc[r] = "idle"  => rpc'[r] \in {"idle", "build", "ssr"}
         /\ rpc[r] = "build" => rpc'[r] \in {"build", "stamp", "idle"}
         /\ rpc[r] = "stamp" => rpc'[r] \in {"stamp", "store", "idle"}
         /\ rpc[r] = "store" => rpc'[r] \in {"store", "ssr"}
         /\ rpc[r] = "ssr"   => rpc'[r] \in {"ssr", "idle"}
         /\ nbuilds'[r] <= 1
         /\ (rpc[r] # "ssr" /\ rpc'[r] = "ssr")
               => \A i \in 1..3 : texts'[r][i] # Empty]_vars

\* C32 witness: the call that returned last had built once and got
\* "ssr error" from executeSSR.
NoRetriesWitness ==
    /\ InFlight = {}
    /\ outcome.res = "ssrErr"
    /\ hist # <<>>
    /\ hist[Len(hist)].n = 1

\* ------------------------------------------------------- the two mutexes
\*
\* Every Lock and Unlock of bundleCache and of tailwindWatchers is a step of
\* its own here, between the steps of the work the calls do outside them.

\* The goroutine that task t's ensureTailwindWatcher started, as a holder.
Goroutine(t) == NumCallers + t

\* The task or goroutine holds one of the two mutexes.
Holds(h) == cacheLock = h \/ regLock = h

\* Positions of a call where it builds (buildAll and its three stages),
\* waits on a watcher's ready channel, runs the tailwind subprocess to its
\* end, or executes the server script in a runtime.
BlockingCall == {"build", "waitExisting", "waitOwn", "runTailwind", "ssr"}

\* Positions of the goroutine where it starts the watch subprocess or waits
\* for its first output.
BlockingGoroutine == {"cmdStart", "poll"}

\* A task calls RenderTSXFileWithHydrationWithContext, RegisterPrebuiltBundle
\* or (as the css stage of a build) buildTailwindCSS.
callStart(t) ==
    /\ lpc[t] = "idle"
    /\ \E first \in {"read", "register", "ensure"} : lpc' = [lpc EXCEPT ![t] = first]
    /\ UNCHANGED <<gpc, cacheLock, regLock, lreg, lhit>>

\* readBundlesFromCache: bundleCache.Lock()
readLock(t) ==
    /\ lpc[t] = "read"
    /\ cacheLock = 0
    /\ cacheLock' = t
    /\ lpc' = [lpc EXCEPT ![t] = "readLocked"]
    /\ UNCHANGED <<gpc, regLock, lreg, lhit>>

\* entry := bundleCache.entries[path]; bundleCache.Unlock(); then, with no
\* entry or a stale one, the caller builds, and otherwise it renders.
readUnlock(t) ==
    /\ lpc[t] = "readLocked"
    /\ cacheLock' = 0
    /\ \/ lpc' = [lpc EXCEPT ![t] = "build"]
       \/ /\ lhit
          /\ lpc' = [lpc EXCEPT ![t] = "ssr"]
    /\ UNCHANGED <<gpc, regLock, lreg, lhit>>

\* buildAll returns: an error ends the call, a result goes on to
\* captureFileStamps and storeBundles.
buildDone(t) ==
    /\ lpc[t] = "build"
    /\ \E to \in {"store", "done"} : lpc' = [lpc EXCEPT ![t] = to]
    /\ UNCHANGED <<gpc, cacheLock, regLock, lreg, lhit>>

\* storeBundles: bundleCache.Lock()
storeLock(t) ==
    /\ lpc[t] = "store"
    /\ cacheLock = 0
    /\ cacheLock' = t
    /\ lpc' = [lpc EXCEPT ![t] = "storeLocked"]
    /\ UNCHANGED <<gpc, regLock, lreg, lhit>>

\* storeBundles: the entry is installed or updated; bundleCache.Unlock()
storeUnlock(t) ==
    /\ lpc[t] = "storeLocked"
    /\ lhit' = TRUE
    /\ cacheLock' = 0
    /\ lpc' = [lpc EXCEPT ![t] = "ssr"]
    /\ UNCHANGED <<gpc, regLock, lreg>>

\* executeSSR returns.
ssrDone(t) ==
    /\ lpc[t] = "ssr"
    /\ lpc' = [lpc EXCEPT ![t] = "done"]
    /\ UNCHANGED <<gpc, cacheLock, regLock, lreg, lhit>>

\* RegisterPrebuiltBundle: bundleCache.Lock()
registerLock(t) ==
    /\ lpc[t] = "register"
    /\ cacheLock = 0
    /\ cacheLock' = t
    /\ lpc' = [lpc EXCEPT ![t] = "registerLocked"]
    /\ UNCHANGED <<gpc, regLock, lreg, lhit>>

\* RegisterPrebuiltBundle: the entry is installed or updated; Unlock()
registerUnlock(t) ==
    /\ lpc[t] = "registerLocked"
    /\ lhit' = TRUE
    /\ cacheLock' = 0
    /\ lpc' = [lpc EXCEPT ![t] = "done"]
    /\ UNCHANGED <<gpc, regLock, lreg>>

\* ensureTailwindWatcher: tailwindWatchers.Lock()
lookupLock(t) ==
    /\ lpc[t] = "ensure"
    /\ regLock = 0
    /\ regLock' = t
    /\ lpc' = [lpc EXCEPT ![t] = "lookupLocked"]
    /\ UNCHANGED <<gpc, cacheLock, lreg, lhit>>

\* existing := tailwindWatchers.w[cssPath]; tailwindWatchers.Unlock()
lookupUnlock(t) ==
    /\ lpc[t] = "lookupLocked"
    /\ regLock' = 0
    /\ lpc' = [lpc EXCEPT ![t] = IF lreg # 0 THEN "waitExisting" ELSE "tailwindCmd"]
    /\ UNCHANGED <<gpc, cacheLock, lreg, lhit>>

\* tailwindCmd fails and buildTailwindCSS falls back to runTailwind, or the
\* watcher is made and ensureTailwindWatcher takes the lock a second time.
insertLock(t) ==
    /\ lpc[t] = "tailwindCmd"
    /\ \/ /\ lpc' = [lpc EXCEPT ![t] = "runTailwind"]
          /\ UNCHANGED regLock
       \/ /\ regLock = 0
          /\ regLock' = t
          /\ lpc' = [lpc EXCEPT ![t] = "insertLocked"]
    /\ UNCHANGED <<gpc, cacheLock, lreg, lhit>>

\* The watcher is registered and the goroutine started, but the lock is not
\* released: it is kept for the rest of the call.
insertUnlockDeferred(t) ==
    /\ lpc[t] = "insertLocked"
    /\ lreg' = t
    /\ gpc' = [gpc EXCEPT ![t] = "cmdStart"]
    /\ lpc' = [lpc EXCEPT ![t] = "waitOwn"]
    /\ UNCHANGED <<cacheLock, regLock, lhit>>

\* tailwindWatchers.w[cssPath] = watcher; tailwindWatchers.Unlock(); go func
insertUnlock(t) ==
    /\ lpc[t] = "insertLocked"
    /\ lreg' = t
    /\ regLock' = 0
    /\ gpc' = [gpc EXCEPT ![t] = "cmdStart"]
    /\ lpc' = [lpc EXCEPT ![t] = "waitOwn"]
    /\ UNCHANGED <<cacheLock, lhit>>

\* The select on ready returns (ready closed, or time.After): with a path
\* the css stage ends, with an error buildTailwindCSS calls runTailwind.
waitDone(t) ==
    /\ lpc[t] \in {"waitExisting", "waitOwn"}
    /\ \E to \in {"done", "runTailwind"} : lpc' = [lpc EXCEPT ![t] = to]
    /\ UNCHANGED <<gpc, cacheLock, regLock, lreg, lhit>>

\* runTailwind: the subprocess has run to its end.
runTailwindDone(t) ==
    /\ lpc[t] = "runTailwind"
    /\ lpc' = [lpc EXCEPT ![t] = "done"]
    /\ UNCHANGED <<gpc, cacheLock, regLock, lreg, lhit>>

\* The goroutine: cmd.Start() returns, with an error or without.
cmdStarted(t) ==
    /\ gpc[t] = "cmdStart"
    /\ \E to \in {"poll", "failed"} : gpc' = [gpc EXCEPT ![t] = to]
    /\ UNCHANGED <<lpc, cacheLock, regLock, lreg, lhit>>

\* The goroutine: the output file is there, or the polls have run out.
pollDone(t) ==
    /\ gpc[t] = "poll"
    /\ \E to \in {"exit", "failed"} : gpc' = [gpc EXCEPT ![t] = to]
    /\ UNCHANGED <<lpc, cacheLock, regLock, lreg, lhit>>

\* clearWatcher: tailwindWatchers.Lock()
clearLock(t) ==
    /\ gpc[t] = "failed"
    /\ regLock = 0
    /\ regLock' = Goroutine(t)
    /\ gpc' = [gpc EXCEPT ![t] = "clearLocked"]
    /\ UNCHANGED <<lpc, cacheLock, lreg, lhit>>

\* clearWatcher: delete(tailwindWatchers.w, cssPath); Unlock()
clearUnlock(t) ==
    /\ gpc[t] = "clearLocked"
    /\ lreg' = 0
    /\ regLock' = 0
    /\ gpc' = [gpc EXCEPT ![t] = "exit"]
    /\ UNCHANGED <<lpc, cacheLock, lhit>>

InitLocks ==
    /\ poolQuiet
    /\ watchQuiet
    /\ cacheQuiet
    /\ renderQuiet
    /\ buildQuiet
    /\ cssQuiet
    /\ raceQuiet
    /\ freshQuiet
    /\ serialQuiet
    /\ resizeQuiet
    /\ lpc = [t \in Tasks |-> "idle"]
    /\ gpc = [t \in Tasks |-> "none"]
    /\ cacheLock = 0
    /\ regLock = 0
    /\ lreg = 0
    /\ lhit \in BOOLEAN

NextLocks ==
    /\ UNCHANGED <<poolVars, watchVars, cacheVars, renderVars, buildVars, cssVars, raceVars,
                   freshVars, serialVars, resizeVars>>
    /\ \E t \in Tasks :
          \/ callStart(t)
          \/ readLock(t)
          \/ readUnlock(t)
          \/ buildDone(t)
          \/ storeLock(t)
          \/ storeUnlock(t)
          \/ ssrDone(t)
          \/ registerLock(t)
          \/ registerUnlock(t)
          \/ lookupLock(t)
          \/ lookupUnlock(t)
          \/ insertLock(t)
          \/ insertUnlock(t)
          \/ waitDone(t)
          \/ runTailwindDone(t)
          \/ cmdStarted(t)
          \/ pollDone(t)
          \/ clearLock(t)
          \/ clearUnlock(t)

SpecLocks == InitLocks /\ [][NextLocks]_vars

\* C30: in every reachable state, no task holds bundleCache's lock or
\* tailwindWatchers' lock while it runs a build stage, starts or waits on a
\* subprocess, waits on a watcher's ready channel, or executes a script in
\* a runtime.
LocksNotHeldAcrossBlocking ==
    \A t \in Tasks :
        /\ Holds(t) => lpc[t] \notin BlockingCall
        /\ Holds(Goroutine(t)) => gpc[t] \notin BlockingGoroutine

\* One task waits on the ready channel of the watcher it registered under
\* the lock, its goroutine starts the subprocess, and the other task is
\* inside a locked section of the registry.
LocksNotHeldAcrossBlockingWitness ==
    \E t \in Tasks, u \in Tasks :
        /\ t # u
        /\ lpc[t] = "waitOwn"
        /\ lreg = t
        /\ gpc[t] = "cmdStart"
        /\ regLock = u
        /\ ~Holds(t)

\* ------------------------------------------- registering incomplete input
\*
\* RegisterPrebuiltBundle with every argument as the caller gives it: the
\* path, the mount point and each text may be the empty string.

\* The two checks at the head of RegisterPrebuiltBundle.
registerRejects(path, rootID, serverJS, clientJS, css) ==
    \/ path = "" \/ rootID = ""
    \/ serverJS = Empty \/ clientJS = Empty \/ css = Empty

\* RegisterPrebuiltBundle without the two checks.
registerTextsUnchecked(path, rootID, serverJS, clientJS, css) ==
    /\ entries' = [c \in Comps |->
                      registeredBundle(c, IF rootID = "" THEN "a" ELSE rootID,
                                       serverJS, clientJS, css)]
    /\ noted(Call("register", path, rootID, "", {}, TRUE, <<serverJS, clientJS, css>>))
    /\ UNCHANGED fs

\* RegisterPrebuiltBundle(path, rootID, serverJS, clientJS, css): an error
\* for incomplete input, and otherwise the entry of the path is installed
\* or updated.
registerTexts(path, rootID, serverJS, clientJS, css) ==
    /\ IF registerRejects(path, rootID, serverJS, clientJS, css)
       THEN UNCHANGED entries
       ELSE entries' = [entries EXCEPT ![path] =
                           registeredBundle(path, rootID, serverJS, clientJS, css)]
    /\ noted(Call("register", path, rootID, "", {},
                  ~registerRejects(path, rootID, serverJS, clientJS, css),
                  <<serverJS, clientJS, css>>))
    /\ UNCHANGED fs

NextRegister ==
    /\ UNCHANGED <<poolVars, watchVars, renderVars, buildVars, cssVars, raceVars, freshVars,
                   serialVars, lockVars, resizeVars>>
    /\ \E path \in Comps \cup {""}, rootID \in Roots \cup {""},
          serverJS \in {Empty} \cup {Supplied(b)[1] : b \in BundleIds},
          clientJS \in {Empty} \cup {Supplied(b)[2] : b \in BundleIds},
          css \in {Empty} \cup {Supplied(b)[3] : b \in BundleIds} :
             registerTexts(path, rootID, serverJS, clientJS, css)

\* The files play no part: a prebuilt entry is never stale.
InitRegister ==
    /\ InitCache
    /\ fs = [f \in CacheFiles |-> [mt |-> 1, sz |-> 1]]

SpecRegister == InitRegister /\ [][NextRegister]_vars

\* C39: a RegisterPrebuiltBundle call with an empty component path or mount
\* point, or with an empty server script, client script or stylesheet,
\* returns an error and leaves every cache entry as it was.
RejectsUntouched ==
    [][(/\ last'.op = "register"
        /\ \/ last'.path = "" \/ last'.root = ""
           \/ \E i \in 1..3 : last'.res[i] = Empty)
          => (entries' = entries /\ ~last'.ok)]_vars

\* C39 witness: the component has an entry, and the last call registered
\* for it texts of which one was empty and returned the error.
RejectsUntouchedWitness ==
    /\ entries[Page] # Nil
    /\ last.op = "register"
    /\ last.path = Page
    /\ last.root # ""
    /\ \E i \in 1..3 : last.res[i] = Empty
    /\ ~last.ok

\* ------------------------------------------------------- two components
\*
\* bundleCache.entries with two component paths.  The calls for the second
\* component are made for one mount point with one bundle, which is enough
\* for it to hold no entry, a prebuilt one, a built one, fresh or stale.
\* The files stay as they are; the stamps that are stored vary.

Keys == Comps \cup {"about"}

\* The bundles and mount points the calls for a component are made with.
KeyBundles(c) == IF c \in Comps THEN BundleIds ELSE {"p"}
KeyRoots(c) == IF c \in Comps THEN Roots ELSE {"a"}

\* storeBundles, were it to write the entry of every path.
keyStoreAllKeys(c, rootID, b, deps) ==
    /\ entries' = [k \in Keys |->
          storedBundles(c, rootID, Supplied(b)[1], Supplied(b)[2], Supplied(b)[3], deps)]
    /\ UNCHANGED <<fs, last, edited>>

\* storeBundles(c, rootID, serverJS, clientJS, css, deps) with the texts of
\* bundle b.
keyStore(c, rootID, b, deps) ==
    /\ entries' = [entries EXCEPT ![c] =
          storedBundles(c, rootID, Supplied(b)[1], Supplied(b)[2], Supplied(b)[3], deps)]
    /\ UNCHANGED <<fs, last, edited>>

\* RegisterPrebuiltBundle(c, rootID, serverJS, clientJS, css) with the texts
\* of bundle b.
keyRegister(c, rootID, b) ==
    /\ RegisterPrebuiltBundle(c, rootID, b, TRUE)
    /\ UNCHANGED <<last, edited>>

InitKeys ==
    /\ poolQuiet
    /\ watchQuiet
    /\ renderQuiet
    /\ buildQuiet
    /\ raceQuiet
    /\ freshQuiet
    /\ lockQuiet
    /\ resizeQuiet
    /\ serialQuiet
    /\ cssQuiet
    /\ entries = [c \in Keys |-> Nil]
    /\ fs = [f \in Files |-> [mt |-> 1, sz |-> 1]]
    /\ last = NoCall
    /\ edited = FALSE

NextKeys ==
    /\ UNCHANGED <<poolVars, watchVars, renderVars, buildVars, cssVars, raceVars, freshVars,
                   serialVars, lockVars, resizeVars>>
    /\ \/ \E c \in Keys : \E rootID \in KeyRoots(c), b \in KeyBundles(c),
                                deps \in FullStamps(CacheFiles) :
             keyStore(c, rootID, b, deps)
       \/ \E c \in Keys : \E rootID \in KeyRoots(c), b \in KeyBundles(c) :
             keyRegister(c, rootID, b)

SpecKeys == InitKeys /\ [][NextKeys]_vars

\* C35: a RegisterPrebuiltBundle or a storeBundles for one component path
\* leaves the entry of every other path as it is (texts, stamps and prebuilt
\* flag), and leaves what readBundlesFromCache returns for every other path
\* and every mount point as it is.
KeysIndependent ==
    [][\A c \in Keys :
         (\/ \E rootID \in KeyRoots(c), b \in KeyBundles(c),
                deps \in FullStamps(CacheFiles) : keyStore(c, rootID, b, deps)
          \/ \E rootID \in KeyRoots(c), b \in KeyBundles(c) : keyRegister(c, rootID, b))
            => \A d \in Keys \ {c} :
                  /\ entries'[d] = entries[d]
                  /\ \A rid \in Roots :
                        readBundlesFromCache(d, rid)' = readBundlesFromCache(d, rid)]_vars

\* C35 witness: both paths hold a usable entry, one prebuilt and one built,
\* with texts of different bundles.
KeysIndependentWitness ==
    \E c \in Keys, d \in Keys :
        /\ c # d
        /\ entries[c] # Nil /\ entries[d] # Nil
        /\ entries[c].prebuilt /\ ~entries[d].prebuilt
        /\ entries[c].serverJS # entries[d].serverJS
        /\ readBundlesFromCache(c, "a") # Empty3
        /\ readBundlesFromCache(d, "a") # Empty3

\* ------------------------------------------------- waiting for a slot

\* The pool with a render timeout above 0.
InitPoolTimeout ==
    /\ InitPool
    /\ renderTimeout > 0

\* Timers fire, and a goroutine blocked in the select of acquire is woken
\* when one of the two cases is ready.
SpecPoolAcquireFair ==
    /\ InitPoolTimeout
    /\ [][NextPool]_vars
    /\ \A r \in Renders :
          /\ WF_vars(/\ UNCHANGED <<watchVars, cacheVars, renderVars, buildVars, cssVars,
                                     raceVars, freshVars, serialVars, lockVars, resizeVars>>
                     /\ deadline(r))
          /\ WF_vars(/\ UNCHANGED <<watchVars, cacheVars, renderVars, buildVars, cssVars,
                                     raceVars, freshVars, serialVars, lockVars, resizeVars>>
                     /\ (acquireSlot(r) \/ acquireCancelled(r)))

\* C34: with a render timeout above 0, a call in jsPool.acquire leaves it
\* only with a slot that was free (one more token in sem) or, its context
\* being done, with the error of acquire; while the pool is full and its
\* context is not done it stays there; and it does leave acquire.
BackpressureBlocks ==
    /\ [][\A r \in Renders :
            (pc[r] = "acquire" /\ pc'[r] # "acquire")
               => \/ /\ pc'[r] = "newRuntime"
                     /\ sem < size
                     /\ sem' = sem + 1
                  \/ /\ pc'[r] = "idle"
                     /\ ctxErr[r] # "none"
                     /\ result'[r] = "acquireErr"
                     /\ sem' = sem]_vars
    /\ \A r \in Renders :
          (pc[r] = "acquire" /\ renderTimeout > 0) ~> (pc[r] # "acquire")

\* C34 witness: the pool is full, its holder runs a script, and the deadline
\* of a call that waits in acquire has passed.
BackpressureBlocksWitness ==
    \E r \in Renders, q \in Renders :
        /\ renderTimeout > 0
        /\ pc[r] = "acquire"
        /\ ctxErr[r] = "deadline"
        /\ sem = size
        /\ pc[q] \in {"eval", "evalLoop", "invoke", "invokeLoop"}

\* ---------------------------------------- a build and the caller's context
\*
\* One render call in dev mode: buildAll of the section above, then
\* storeBundles and executeSSR with the context the caller passed in, which
\* the caller cancels, if it does, before buildAll has returned.  The call
\* is call 1 of the pool.

\* The caller cancels the context of the call while buildAll runs or has
\* just returned; nothing in buildAll looks at it.
callerCancels ==
    /\ bpc # "idle"
    /\ ctxErr[1] = "none"
    /\ ctxErr' = [ctxErr EXCEPT ![1] = "canceled"]
    /\ UNCHANGED <<size, sem, renderTimeout, pc, timer, vm, live, result, calls>>
    /\ UNCHANGED <<buildVars, cacheVars>>

\* buildAll has returned: with an error the call returns it; otherwise it
\* stores and enters executeSSR, which derives its context from the caller's
\* (the render timeout is 0 here, so no timer is armed) and goes to acquire.
renderAfterBuild ==
    /\ buildReturned
    /\ IF ret.err # ""
       THEN /\ ctxErr' = [ctxErr EXCEPT ![1] = "none"]
            /\ result' = [result EXCEPT ![1] = "buildErr"]
            /\ UNCHANGED pc
       ELSE /\ pc' = [pc EXCEPT ![1] = "acquire"]
            /\ result' = [result EXCEPT ![1] = "none"]
            /\ UNCHANGED ctxErr
    /\ UNCHANGED <<size, sem, renderTimeout, timer, vm, live, calls>>

InitOutlive ==
    /\ poolQuiet
    /\ watchQuiet
    /\ cacheQuiet
    /\ devMode = TRUE
    /\ rendersIdle
    /\ buildQuiet
    /\ raceQuiet
    /\ freshQuiet
    /\ lockQuiet
    /\ resizeQuiet
    /\ serialQuiet
    /\ cssQuiet

NextOutlive ==
    /\ UNCHANGED <<watchVars, renderVars, cssVars, raceVars, freshVars, serialVars, lockVars, resizeVars>>
    /\ \/ \E rid \in Roots : buildStart(rid) /\ pc[1] = "idle" /\ UNCHANGED poolVars
       \/ \E i \in 1..3 : stageTask(i) /\ UNCHANGED poolVars
       \/ buildJoin /\ UNCHANGED poolVars
       \/ renderAfterBuild
       \/ callerCancels
       \/ acquireSlot(1) /\ UNCHANGED <<buildVars, cacheVars>>
       \/ acquireCancelled(1) /\ UNCHANGED <<buildVars, cacheVars>>
       \/ newRuntimeWithContext(1) /\ UNCHANGED <<buildVars, cacheVars>>
       \/ runSSREval(1) /\ UNCHANGED <<buildVars, cacheVars>>
       \/ runSSRInvoke(1) /\ UNCHANGED <<buildVars, cacheVars>>
       \/ interrupt(1) /\ UNCHANGED <<buildVars, cacheVars>>
       \/ closeRuntime(1) /\ UNCHANGED <<buildVars, cacheVars>>
       \/ release(1) /\ UNCHANGED <<buildVars, cacheVars>>

\* The stage goroutines and the goroutine of the call are scheduled.
SpecOutlive ==
    /\ InitOutlive
    /\ [][NextOutlive]_vars
    /\ \A i \in 1..3 :
          WF_vars(/\ UNCHANGED <<poolVars, watchVars, renderVars, cssVars, raceVars, freshVars,
                                 serialVars, lockVars, resizeVars>>
                  /\ stageTask(i))
    /\ WF_vars(/\ UNCHANGED <<poolVars, watchVars, renderVars, cssVars, raceVars, freshVars,
                              serialVars, lockVars, resizeVars>>
               /\ buildJoin)

\* The context of the call was cancelled before buildAll returned.
CancelledInBuild == bpc # "idle" /\ ctxErr[1] = "canceled"

PoolSizes == 1..(MaxPoolSize + 1)

\* The calls that hold a runtime.
Sandboxes == {r \in Renders : zpc[r] = "run"}

\* The largest of the pool sizes that were in effect so far.
LargestSize ==
    CHOOSE n \in {cap[c] : c \in 1..psem} : \A c \in 1..psem : cap[c] <= n

\* runtimePool.setSize(n): nothing for the size the pool has; otherwise
\* p.sem = make(chan struct{}, n) and p.size = n.
setSize(n) ==
    /\ n # cap[psem]
    /\ psem + 1 \in Chans
    /\ psem' = psem + 1
    /\ cap' = [cap EXCEPT ![psem + 1] = n]
    /\ UNCHANGED <<tok, zpc, zsel>>

\* runtimePool.acquire gets to its select: p.sem is evaluated.
resizeSelect(r) ==
    /\ zpc[r] = "idle"
    /\ zpc' = [zpc EXCEPT ![r] = "select"]
    /\ zsel' = [zsel EXCEPT ![r] = psem]
    /\ UNCHANGED <<psem, tok, cap>>

\* The send of that select goes through, the channel having room, and
\* newRuntimeWithContext makes the runtime of the call.
resizeSend(r) ==
    /\ zpc[r] = "select"
    /\ tok[zsel[r]] < cap[zsel[r]]
    /\ tok' = [tok EXCEPT ![zsel[r]] = @ + 1]
    /\ zpc' = [zpc EXCEPT ![r] = "run"]
    /\ UNCHANGED <<psem, cap, zsel>>

\* runtimePool.release: closeRuntime(vm), then the non-blocking receive from
\* p.sem as it is now.
resizeRelease(r) ==
    /\ zpc[r] = "run"
    /\ tok' = [tok EXCEPT ![psem] = tryReceive(@)]
    /\ zpc' = [zpc EXCEPT ![r] = "idle"]
    /\ zsel' = [zsel EXCEPT ![r] = 0]
    /\ UNCHANGED <<psem, cap>>

InitResize ==
    /\ poolQuiet
    /\ watchQuiet
    /\ cacheQuiet
    /\ renderQuiet
    /\ buildQuiet
    /\ cssQuiet
    /\ raceQuiet
    /\ freshQuiet
    /\ serialQuiet
    /\ lockQuiet
    /\ psem = 1
    /\ tok = [c \in Chans |-> 0]
    /\ \E n \in PoolSizes : cap = [c \in Chans |-> IF c = 1 THEN n ELSE 0]
    /\ zpc = [r \in Renders |-> "idle"]
    /\ zsel = [r \in Renders |-> 0]

NextResize ==
    /\ UNCHANGED <<poolVars, watchVars, cacheVars, renderVars, buildVars, cssVars, raceVars,
                   freshVars, serialVars, lockVars>>
    /\ \/ \E n \in PoolSizes : setSize(n)
       \/ \E r \in Renders : resizeSelect(r)
       \/ \E r \in Renders : resizeSend(r)
       \/ \E r \in Renders : resizeRelease(r)

SpecResize == InitResize /\ [][NextResize]_vars

\* C36: whatever the interleaving of acquire, release and
\* SetRuntimePoolSize, no more runtimes exist than the largest pool size
\* that was in effect, and a release takes out of a channel the token that
\* the acquire of the same call put in.
PoolBoundUnderResize ==
    /\ [](Cardinality(Sandboxes) <= LargestSize)
    /\ [][\A r \in Renders :
            (zpc[r] = "run" /\ zpc'[r] = "idle")
               => tok'[zsel[r]] = tok[zsel[r]] - 1]_vars

====
